---- MODULE Spec2Model ----
(***************************************************************************)
(* NVML backend of libXNVCtrlAttributes (NvCtrlAttributesNvml.c), built    *)
(* with NVML_AVAILABLE: the reference-counted library lifecycle, the       *)
(* NV-CONTROL -> NVML identity dictionary, the sensor/cooler enumeration   *)
(* of a private handle, the thermal/cooler id resolver and the attribute   *)
(* entry points.                                                           *)
(*                                                                         *)
(* C arrays are functions over 0..n-1.  A vendor (NVML) or NV-CONTROL call *)
(* is an opaque call: its outcome is an input of the step that makes it.   *)
(***************************************************************************)
EXTENDS Integers, Sequences, FiniteSets, TLC

VARIABLES
    isNvmlLoaded,   \* static Bool __isNvmlLoaded
    nvmlUsers,      \* static unsigned int __nvmlUsers
    run,            \* history: successful acquires / releases since the library was last unloaded
    h,              \* the NvCtrlAttributePrivateHandle of the target (NULL or a record)
    pc,             \* idle, a position inside a function in progress, returned or crashed
    cur,            \* locals of the function in progress; SpecConstruct keeps them as history
    env,            \* what the vendor library and NV-CONTROL answer (identity reconciliation)
    last            \* the last call made: its name, return status and side effects

vars == <<isNvmlLoaded, nvmlUsers, run, h, pc, cur, env, last>>

(***************************************************************************)
(* Bounds of the model.                                                    *)
(***************************************************************************)
\* most acquires outstanding above 0 (and most releases below 0 after a wrap)
MaxUsers == 3
\* most devices nvmlDeviceGetCount reports
MaxDevices == 2
\* acquisitions held at once by the owners of the one target handle
MaxHolders == 1
\* most devices of a handle the resolver is applied to on its own
MaxGPUs == 3
\* number of distinct GPU UUID strings
NumUUIDs == 2

\* unsigned int: the least width C allows (16 bits); the arithmetic is modulo UINT_MAX + 1
UINT_MAX == 65535

\* the null pointer
NULL == [null |-> TRUE]

\* ReturnStatus values the file returns
NvCtrlSuccess == "NvCtrlSuccess"
NvCtrlError == "NvCtrlError"
NvCtrlBadArgument == "NvCtrlBadArgument"
NvCtrlBadHandle == "NvCtrlBadHandle"
NvCtrlNotSupported == "NvCtrlNotSupported"
NvCtrlMissingExtension == "NvCtrlMissingExtension"
NvCtrlAttributeNotAvailable == "NvCtrlAttributeNotAvailable"

\* outcomes that are not a return: a failed assert() aborts, a NULL dereference faults
Aborted == "SIGABRT"
Faulted == "SIGSEGV"

\* what a call leaves in `last`
\*   calls   the vendor (NVML) functions called
\*   warned  the number of nv_warning_msg() lines, logged: printNvmlError() was called
\*   legacy  the NV-CONTROL backend was called, wrote: the caller's output was stored
\*   deref   a field of the private handle was read
\*   value   what was stored in the caller's output, where the code decides it

\* "*val" of a call that has not written it, or whose value is an NVML reading
Unwritten == -1

Call(op, status, calls) ==
    [op |-> op, status |-> status, calls |-> calls, warned |-> 0, logged |-> FALSE,
     legacy |-> FALSE, wrote |-> FALSE, deref |-> FALSE, value |-> Unwritten]

NoCall == Call("none", "none", {})

\* unsigned int arithmetic
UIntInc(u) == (u + 1) % (UINT_MAX + 1)
UIntDec(u) == (u - 1) % (UINT_MAX + 1)

(***************************************************************************)
(* Library lifecycle.                                                      *)
(***************************************************************************)

\* mutant: the count is incremented only when the library was just loaded
InitNvmlStep_CountFirstOnly(loaded, users, ok) ==
    IF ~loaded /\ ~ok
    THEN [loaded |-> loaded, users |-> users, status |-> NvCtrlMissingExtension,
          calls |-> {"nvmlInit"}]
    ELSE [loaded |-> TRUE, users |-> IF loaded THEN users ELSE UIntInc(users),
          status |-> NvCtrlSuccess,
          calls |-> IF loaded THEN {} ELSE {"nvmlInit"}]

\* NvCtrlInitNvml(): ok is "nvmlInit() returns NVML_SUCCESS"
InitNvmlStep(loaded, users, ok) ==
    IF ~loaded /\ ~ok
    THEN [loaded |-> loaded, users |-> users, status |-> NvCtrlMissingExtension,
          calls |-> {"nvmlInit"}]
    ELSE [loaded |-> TRUE, users |-> UIntInc(users), status |-> NvCtrlSuccess,
          calls |-> IF loaded THEN {} ELSE {"nvmlInit"}]

\* mutant: nvmlShutdown() is called on every release
DestroyNvmlStep_AlwaysShutdown(loaded, users, ok) ==
    IF ~loaded
    THEN [loaded |-> loaded, users |-> users, status |-> NvCtrlSuccess, calls |-> {}]
    ELSE IF ~ok
         THEN [loaded |-> TRUE, users |-> UIntDec(users), status |-> NvCtrlError,
               calls |-> {"nvmlShutdown"}]
         ELSE [loaded |-> FALSE, users |-> UIntDec(users), status |-> NvCtrlSuccess,
               calls |-> {"nvmlShutdown"}]

\* NvCtrlDestroyNvml(): ok is "nvmlShutdown() returns NVML_SUCCESS"
DestroyNvmlStep(loaded, users, ok) ==
    IF ~loaded
    THEN [loaded |-> loaded, users |-> users, status |-> NvCtrlSuccess, calls |-> {}]
    ELSE IF UIntDec(users) # 0
         THEN [loaded |-> TRUE, users |-> UIntDec(users), status |-> NvCtrlSuccess,
               calls |-> {}]
         ELSE IF ~ok
              THEN [loaded |-> TRUE, users |-> UIntDec(users), status |-> NvCtrlError,
                    calls |-> {"nvmlShutdown"}]
              ELSE [loaded |-> FALSE, users |-> UIntDec(users), status |-> NvCtrlSuccess,
                    calls |-> {"nvmlShutdown"}]

\* the count is within b of 0, on either side of the wrap
Within(b, u) == u <= b \/ u >= UINT_MAX + 1 - b

\* the lifecycle is followed while the count stays within MaxUsers of 0
NearZero(u) == Within(MaxUsers, u)

NvCtrlInitNvml(ok) ==
    LET r == InitNvmlStep(isNvmlLoaded, nvmlUsers, ok) IN
    /\ pc = "idle"
    /\ isNvmlLoaded => ok
    /\ NearZero(r.users)
    /\ isNvmlLoaded' = r.loaded
    /\ nvmlUsers' = r.users
    /\ last' = [Call("NvCtrlInitNvml", r.status, r.calls)
                  EXCEPT !.logged = r.status # NvCtrlSuccess]
    /\ UNCHANGED <<h, cur, env>>

NvCtrlDestroyNvml(ok) ==
    LET r == DestroyNvmlStep(isNvmlLoaded, nvmlUsers, ok) IN
    /\ pc = "idle"
    /\ "nvmlShutdown" \notin r.calls => ok
    /\ NearZero(r.users)
    /\ isNvmlLoaded' = r.loaded
    /\ nvmlUsers' = r.users
    /\ last' = [Call("NvCtrlDestroyNvml", r.status, r.calls)
                  EXCEPT !.logged = r.status # NvCtrlSuccess]
    /\ UNCHANGED <<h, cur, env>>

\* history of a run "N successful acquires, then releases" that starts with
\* the library unloaded
NoRun == [acq |-> 0, rel |-> 0, ok |-> TRUE]

RunAfterInit(r, wasLoaded, status) ==
    IF status # NvCtrlSuccess THEN r
    ELSE IF ~wasLoaded THEN [acq |-> 1, rel |-> 0, ok |-> TRUE]
    ELSE IF r.ok /\ r.rel = 0 THEN [r EXCEPT !.acq = r.acq + 1]
    ELSE [r EXCEPT !.ok = FALSE]

RunAfterDestroy(r) ==
    IF r.ok /\ r.rel < r.acq THEN [r EXCEPT !.rel = r.rel + 1]
    ELSE [r EXCEPT !.ok = FALSE]

Acquire ==
    \E ok \in BOOLEAN :
        /\ NvCtrlInitNvml(ok)
        /\ run' = RunAfterInit(run, isNvmlLoaded, last'.status)
        /\ UNCHANGED pc

Release ==
    \E ok \in BOOLEAN :
        /\ NvCtrlDestroyNvml(ok)
        /\ run' = RunAfterDestroy(run)
        /\ UNCHANGED pc

InitLifecycle ==
    /\ isNvmlLoaded = FALSE
    /\ nvmlUsers = 0
    /\ run = NoRun
    /\ h = NULL
    /\ pc = "idle"
    /\ cur = NULL
    /\ env = NULL
    /\ last = NoCall

NextLifecycle == Acquire \/ Release

SpecLifecycle == InitLifecycle /\ [][NextLifecycle]_vars

(***************************************************************************)
(* Claims on the library lifecycle (SpecLifecycle).                        *)
(***************************************************************************)

\* C1: in a run of N successful acquires followed by releases, each of the
\* first N-1 releases leaves the library loaded and calls no nvmlShutdown, the
\* Nth release calls nvmlShutdown; and whenever a release calls nvmlShutdown
\* the count it has just decremented is 0.
C1_ReleaseOrder ==
    last.op = "NvCtrlDestroyNvml" =>
        /\ (run.ok /\ run.rel >= 1 /\ run.rel < run.acq) =>
               (isNvmlLoaded /\ "nvmlShutdown" \notin last.calls)
        /\ (run.ok /\ run.rel >= 1 /\ run.rel = run.acq) =>
               "nvmlShutdown" \in last.calls
        /\ "nvmlShutdown" \in last.calls => nvmlUsers = 0

\* the second of two releases, after two acquires, has just called nvmlShutdown
C1_Witness ==
    /\ last.op = "NvCtrlDestroyNvml"
    /\ run.ok /\ run.acq >= 2 /\ run.rel = run.acq
    /\ "nvmlShutdown" \in last.calls

\* C2: an acquire calls nvmlInit exactly when the library is not loaded; a
\* successful acquire adds one (unsigned) to the count and leaves the library
\* loaded; when nvmlInit fails the acquire returns NvCtrlMissingExtension and
\* changes neither the count nor the loaded flag.
C2_AcquireContract ==
    [][\A ok \in BOOLEAN :
          NvCtrlInitNvml(ok) =>
            /\ ("nvmlInit" \in last'.calls) <=> ~isNvmlLoaded
            /\ (isNvmlLoaded \/ ok) =>
                  /\ last'.status = NvCtrlSuccess
                  /\ nvmlUsers' = UIntInc(nvmlUsers)
                  /\ isNvmlLoaded'
            /\ (~isNvmlLoaded /\ ~ok) =>
                  /\ last'.status = NvCtrlMissingExtension
                  /\ nvmlUsers' = nvmlUsers
                  /\ isNvmlLoaded' = isNvmlLoaded]_vars

\* an acquire has just failed in nvmlInit
C2_Witness ==
    /\ last.op = "NvCtrlInitNvml"
    /\ last.status = NvCtrlMissingExtension
    /\ "nvmlInit" \in last.calls
    /\ ~isNvmlLoaded /\ nvmlUsers = 0

\* C3 (as claimed): after a release whose nvmlShutdown failed, the loaded flag
\* is cleared.
C3_FailedShutdownUnloads ==
    (last.op = "NvCtrlDestroyNvml" /\ last.status = NvCtrlError) => ~isNvmlLoaded

(***************************************************************************)
(* Identity reconciliation: matchNvCtrlWithNvmlIds.                        *)
(***************************************************************************)

UUIDs == 1..NumUUIDs

\* XNVCTRLQueryTargetStringAttribute(.., i, .., NV_CTRL_STRING_GPU_UUID, &nvctrlUUID):
\* returns False, returns True with a NULL string, or yields a UUID
QueryFailed == -1
NullString == -2
NvCtrlAnswers == {QueryFailed, NullString} \cup UUIDs

\* NVML device j: nvmlDeviceGetHandleByIndex fails, nvmlDeviceGetUUID fails,
\* or the device yields a UUID
NoHandle == -1
NoUUID == -2
NvmlAnswers == {NoHandle, NoUUID} \cup UUIDs

\* the inner loop ran out (j == deviceCount)
NoMatch == -1

\* the fallback: the same id for NV-CONTROL and NVML
Identity(n) == [i \in 0..(n - 1) |-> i]

\* mutant: a device whose handle or UUID query fails ends the scan
RECURSIVE ScanNvml_StopOnFailure(_, _, _, _)
ScanNvml_StopOnFailure(j, n, uuid, devs) ==
    IF j >= n THEN NoMatch
    ELSE IF devs[j] \in {NoHandle, NoUUID} THEN NoMatch
    ELSE IF devs[j] = uuid THEN j
    ELSE ScanNvml_StopOnFailure(j + 1, n, uuid, devs)

\* the inner loop "for (j = 0; j < deviceCount; j++)" from j on: the first NVML
\* index whose UUID compares equal, NoMatch when the loop runs out
RECURSIVE ScanNvml(_, _, _, _)
ScanNvml(j, n, uuid, devs) ==
    IF j >= n THEN NoMatch
    ELSE IF devs[j] = NoHandle THEN ScanNvml(j + 1, n, uuid, devs)
    ELSE IF devs[j] = NoUUID THEN ScanNvml(j + 1, n, uuid, devs)
    ELSE IF devs[j] = uuid THEN j
    ELSE ScanNvml(j + 1, n, uuid, devs)

\* mutant: a slot without a match is cleared to 0
MatchOuterStep_ZeroOnMiss(ids, i, n, nvctrl, devs) ==
    IF nvctrl[i] \in {QueryFailed, NullString} THEN [ids EXCEPT ![i] = 0]
    ELSE LET j == ScanNvml(0, n, nvctrl[i], devs) IN
         IF j = NoMatch THEN [ids EXCEPT ![i] = 0] ELSE [ids EXCEPT ![i] = j]

\* one iteration of the outer loop "for (i = 0; i < deviceCount; i++)"
MatchOuterStep(ids, i, n, nvctrl, devs) ==
    IF nvctrl[i] = QueryFailed THEN ids
    ELSE IF nvctrl[i] = NullString THEN ids
    ELSE LET j == ScanNvml(0, n, nvctrl[i], devs) IN
         IF j = NoMatch THEN ids ELSE [ids EXCEPT ![i] = j]

RECURSIVE MatchLoop(_, _, _, _, _)
MatchLoop(ids, i, n, nvctrl, devs) ==
    IF i >= n THEN ids
    ELSE MatchLoop(MatchOuterStep(ids, i, n, nvctrl, devs), i + 1, n, nvctrl, devs)

\* the whole function: nv is "h->nv != NULL"
matchNvCtrlWithNvmlIds(nv, n, nvctrl, devs) ==
    IF nv THEN MatchLoop(Identity(n), 0, n, nvctrl, devs) ELSE Identity(n)

\* the dictionaries the function can return for n devices
IdsFor ==
    [n \in 0..MaxDevices |->
        {matchNvCtrlWithNvmlIds(nv, n, a, d) :
            nv \in BOOLEAN, a \in [0..(n - 1) -> NvCtrlAnswers],
            d \in [0..(n - 1) -> NvmlAnswers]}]

\* the function run one outer iteration at a time, on answers fixed at the start
MatchAlloc ==
    /\ pc = "match_alloc"
    /\ cur' = [ids |-> Identity(env.n), i |-> 0]
    /\ pc' = IF env.nv THEN "match_loop" ELSE "match_done"
    /\ UNCHANGED <<isNvmlLoaded, nvmlUsers, run, h, env, last>>

MatchIterate ==
    /\ pc = "match_loop"
    /\ cur.i < env.n
    /\ cur' = [ids |-> MatchOuterStep(cur.ids, cur.i, env.n, env.nvctrl, env.devs),
               i |-> cur.i + 1]
    /\ UNCHANGED <<isNvmlLoaded, nvmlUsers, run, h, pc, env, last>>

MatchReturn ==
    /\ pc = "match_loop"
    /\ cur.i >= env.n
    /\ pc' = "match_done"
    /\ UNCHANGED <<isNvmlLoaded, nvmlUsers, run, h, cur, env, last>>

InitMatch ==
    /\ isNvmlLoaded = TRUE
    /\ nvmlUsers = 1
    /\ run = NoRun
    /\ h = NULL
    /\ pc = "match_alloc"
    /\ cur = NULL
    /\ \E n \in 0..MaxDevices, nv \in BOOLEAN :
          \E a \in [0..(n - 1) -> NvCtrlAnswers], d \in [0..(n - 1) -> NvmlAnswers] :
             env = [n |-> n, nv |-> nv, nvctrl |-> a, devs |-> d]
    /\ last = NoCall

NextMatch == MatchAlloc \/ MatchIterate \/ MatchReturn

SpecMatch == InitMatch /\ [][NextMatch]_vars

(***************************************************************************)
(* Claims on the identity reconciliation (SpecMatch).                      *)
(***************************************************************************)

\* the NVML indices whose UUID can be queried and equals the NV-CONTROL UUID of i
MatchesOf(i) == {j \in 0..(env.n - 1) : env.devs[j] = env.nvctrl[i]}

\* the NV-CONTROL index i has a UUID
HasNvCtrlUUID(i) == env.nv /\ env.nvctrl[i] \in UUIDs

\* C7: after the reconciliation every NV-CONTROL index i for which there is no
\* NV-CONTROL backend, or the UUID query fails or yields no string, or no NVML
\* device has an equal UUID, maps to itself.
C7_IdentityFallback ==
    pc = "match_done" =>
        \A i \in 0..(env.n - 1) :
            (~HasNvCtrlUUID(i) \/ MatchesOf(i) = {}) => cur.ids[i] = i

\* index 0 was matched to NVML device 1, and index 1 has a UUID no device has
C7_Witness ==
    /\ pc = "match_done"
    /\ env.n = 2 /\ env.nv
    /\ cur.ids[0] = 1
    /\ env.nvctrl[1] \in UUIDs /\ MatchesOf(1) = {}
    /\ cur.ids[1] = 1

\* C8: after the reconciliation every NV-CONTROL index i whose UUID equals the
\* UUID of some NVML device that can be queried maps to the lowest such NVML
\* index; devices whose handle or UUID query fails are passed over.
C8_FirstMatchWins ==
    pc = "match_done" =>
        \A i \in 0..(env.n - 1) :
            (HasNvCtrlUUID(i) /\ MatchesOf(i) # {}) =>
                /\ cur.ids[i] \in MatchesOf(i)
                /\ \A j \in MatchesOf(i) : cur.ids[i] <= j

\* index 0 was matched to device 1 past a device that could not be queried,
\* and the outer loop went on to match index 1 as well
C8_Witness ==
    /\ pc = "match_done"
    /\ env.n = 2 /\ env.nv
    /\ env.devs[0] \in {NoHandle, NoUUID}
    /\ env.nvctrl[0] \in UUIDs /\ env.nvctrl[1] \in UUIDs
    /\ cur.ids = [i \in 0..1 |-> 1]

(***************************************************************************)
(* The private handle and its NVML attributes: NvCtrlInitNvmlAttributes,   *)
(* NvCtrlNvmlAttributesClose.                                              *)
(***************************************************************************)

GPU_TARGET == "GPU_TARGET"
THERMAL_SENSOR_TARGET == "THERMAL_SENSOR_TARGET"
COOLER_TARGET == "COOLER_TARGET"
\* a target type that is not handled through NVML
X_SCREEN_TARGET == "X_SCREEN_TARGET"

TargetTypes == {GPU_TARGET, THERMAL_SENSOR_TARGET, COOLER_TARGET, X_SCREEN_TARGET}

\* the macro of NvCtrlAttributesPrivate.h
TARGET_TYPE_IS_NVML_COMPATIBLE(t) ==
    t \in {GPU_TARGET, THERMAL_SENSOR_TARGET, COOLER_TARGET}

\* the target ids a caller passes
TargetIds == -1..MaxDevices

\* a handle as the caller hands it over: nv is "h->nv != NULL"
Handle(type, id, nv) ==
    [target_type |-> type, target_id |-> id, nv |-> nv, nvml |-> NULL]

\* "(h == NULL) || (h->nvml == NULL)"
NoAttributes(hh) == IF hh = NULL THEN TRUE ELSE hh.nvml = NULL

\* nvalloc() zeroes the structure, calloc() the two arrays
NewNvml(count) ==
    [deviceCount |-> count,
     sensorCountPerGPU |-> [i \in 0..(count - 1) |-> 0], sensorCount |-> 0,
     coolerCountPerGPU |-> [i \in 0..(count - 1) |-> 0], coolerCount |-> 0,
     deviceIdx |-> 0]

\* what a read outside the dictionary can yield (an arbitrary word)
StrayWords == -1..MaxDevices

\* "nvml->deviceIdx = h->target_id; if (GPU_TARGET) nvml->deviceIdx =
\* nvctrlToNvmlId[h->target_id]": the values deviceIdx can take
DeviceIdxChoices(hh, count, ids) ==
    IF hh.target_type # GPU_TARGET THEN {hh.target_id}
    ELSE IF hh.target_id \in 0..(count - 1) THEN {ids[hh.target_id]}
    ELSE StrayWords

\* the probes of one device: nvmlDeviceGetHandleByIndex fails, or it succeeds
\* and nvmlDeviceGetTemperature / nvmlDeviceGetFanSpeed succeed or fail
Probes ==
    {[handle |-> FALSE, temp |-> FALSE, fan |-> FALSE]} \cup
    {[handle |-> TRUE, temp |-> t, fan |-> f] : t \in BOOLEAN, f \in BOOLEAN}

\* mutant: the running totals count every device whose handle was obtained
EnumerateDevice_CountHandles(hh, nvml, ids, i, probe) ==
    IF ~probe.handle THEN nvml
    ELSE [nvml EXCEPT
            !.sensorCountPerGPU[i] = IF probe.temp THEN 1 ELSE @,
            !.sensorCount = @ + 1,
            !.coolerCountPerGPU[i] = IF probe.fan THEN 1 ELSE @,
            !.coolerCount = @ + 1]

\* mutant: the slot test leaves out the target type of the handle
EnumerateDevice_AnyTypeSlot(hh, nvml, ids, i, probe) ==
    LET devIdx == ids[i]
        afterTemp ==
            IF probe.temp
            THEN [nvml EXCEPT
                    !.deviceIdx = IF hh.target_id = nvml.sensorCount
                                  THEN devIdx ELSE @,
                    !.sensorCountPerGPU[i] = 1,
                    !.sensorCount = @ + 1]
            ELSE nvml
        afterFan ==
            IF probe.fan
            THEN [afterTemp EXCEPT
                    !.deviceIdx = IF hh.target_id = afterTemp.coolerCount
                                  THEN devIdx ELSE @,
                    !.coolerCountPerGPU[i] = 1,
                    !.coolerCount = @ + 1]
            ELSE afterTemp
    IN  IF probe.handle THEN afterFan ELSE nvml

\* mutant: the slot test compares the target id with the count already advanced
EnumerateDevice_SlotAfterCount(hh, nvml, ids, i, probe) ==
    LET devIdx == ids[i]
        afterTemp ==
            IF probe.temp
            THEN [nvml EXCEPT
                    !.deviceIdx = IF hh.target_type = THERMAL_SENSOR_TARGET
                                     /\ hh.target_id = nvml.sensorCount + 1
                                  THEN devIdx ELSE @,
                    !.sensorCountPerGPU[i] = 1,
                    !.sensorCount = @ + 1]
            ELSE nvml
        afterFan ==
            IF probe.fan
            THEN [afterTemp EXCEPT
                    !.deviceIdx = IF hh.target_type = COOLER_TARGET
                                     /\ hh.target_id = afterTemp.coolerCount + 1
                                  THEN devIdx ELSE @,
                    !.coolerCountPerGPU[i] = 1,
                    !.coolerCount = @ + 1]
            ELSE afterTemp
    IN  IF probe.handle THEN afterFan ELSE nvml

\* one iteration of "for (i = 0; i < count; i++)" of NvCtrlInitNvmlAttributes
EnumerateDevice(hh, nvml, ids, i, probe) ==
    LET devIdx == ids[i]
        afterTemp ==
            IF probe.temp
            THEN [nvml EXCEPT
                    !.deviceIdx = IF hh.target_type = THERMAL_SENSOR_TARGET
                                     /\ hh.target_id = nvml.sensorCount
                                  THEN devIdx ELSE @,
                    !.sensorCountPerGPU[i] = 1,
                    !.sensorCount = @ + 1]
            ELSE nvml
        afterFan ==
            IF probe.fan
            THEN [afterTemp EXCEPT
                    !.deviceIdx = IF hh.target_type = COOLER_TARGET
                                     /\ hh.target_id = afterTemp.coolerCount
                                  THEN devIdx ELSE @,
                    !.coolerCountPerGPU[i] = 1,
                    !.coolerCount = @ + 1]
            ELSE afterTemp
    IN  IF probe.handle THEN afterFan ELSE nvml

ConstructCall(status, calls, deref) ==
    [Call("NvCtrlInitNvmlAttributes", status, calls) EXCEPT !.deref = deref]

\* "Check parameters": the test fails with nvml still NULL and "fail:" reads
\* nvml->sensorCountPerGPU through it: the process faults, or the read goes
\* through and NULL is returned
InitAttributesBadParameters ==
    /\ pc = "idle"
    /\ NoAttributes(h)
    /\ \E hh \in {NULL} \cup {Handle(type, id, nv) : type \in TargetTypes,
                                      id \in TargetIds, nv \in BOOLEAN},
          faults \in BOOLEAN :
          /\ IF ~isNvmlLoaded \/ hh = NULL THEN TRUE
             ELSE ~TARGET_TYPE_IS_NVML_COMPATIBLE(hh.target_type)
          /\ h' = IF hh = NULL THEN h ELSE hh
          /\ pc' = IF faults THEN "crashed" ELSE "returned"
          /\ last' = ConstructCall(IF faults THEN Faulted ELSE "NULL", {},
                                   hh # NULL /\ isNvmlLoaded)
    /\ UNCHANGED <<isNvmlLoaded, nvmlUsers, run, cur, env>>

\* nvmlDeviceGetCount fails, or one of the two calloc() returns NULL: "fail:"
\* frees what there is and returns NULL
InitAttributesFail ==
    /\ pc = "idle"
    /\ NoAttributes(h)
    /\ isNvmlLoaded
    /\ \E type \in TargetTypes, id \in TargetIds, nv \in BOOLEAN :
          /\ TARGET_TYPE_IS_NVML_COMPATIBLE(type)
          /\ h' = Handle(type, id, nv)
          /\ last' = ConstructCall("NULL", {"nvmlDeviceGetCount"}, TRUE)
    /\ pc' = "returned"
    /\ UNCHANGED <<isNvmlLoaded, nvmlUsers, run, cur, env>>

\* the parameters pass, nvmlDeviceGetCount yields count and the arrays are allocated
InitAttributesEnter ==
    /\ pc = "idle"
    /\ NoAttributes(h)
    /\ isNvmlLoaded
    /\ \E type \in TargetTypes, id \in TargetIds, nv \in BOOLEAN, count \in 0..MaxDevices :
          /\ TARGET_TYPE_IS_NVML_COMPATIBLE(type)
          /\ h' = Handle(type, id, nv)
          /\ cur' = [nvml |-> NewNvml(count), ids |-> NULL, i |-> 0]
    /\ pc' = "match"
    /\ last' = ConstructCall("running", {"nvmlDeviceGetCount"}, TRUE)
    /\ UNCHANGED <<isNvmlLoaded, nvmlUsers, run, env>>

\* matchNvCtrlWithNvmlIds fills the dictionary; deviceIdx gets its first value
InitAttributesMatch ==
    /\ pc = "match"
    /\ \E ids \in IF h.nv THEN IdsFor[cur.nvml.deviceCount]
                   ELSE {Identity(cur.nvml.deviceCount)} :
          \E idx \in DeviceIdxChoices(h, cur.nvml.deviceCount, ids) :
             cur' = [cur EXCEPT !.ids = ids, !.nvml.deviceIdx = idx]
    /\ pc' = "enum"
    /\ UNCHANGED <<isNvmlLoaded, nvmlUsers, run, h, env, last>>

InitAttributesEnumerate ==
    /\ pc = "enum"
    /\ cur.i < cur.nvml.deviceCount
    /\ \E probe \in Probes :
          cur' = [cur EXCEPT !.nvml = EnumerateDevice(h, cur.nvml, cur.ids, cur.i, probe),
                            !.i = cur.i + 1]
    /\ last' = [last EXCEPT !.calls = @ \cup {"nvmlDeviceGetHandleByIndex"}]
    /\ UNCHANGED <<isNvmlLoaded, nvmlUsers, run, h, pc, env>>

\* "free(nvctrlToNvmlId); return nvml;" and the caller stores the result in h->nvml
InitAttributesReturn ==
    /\ pc = "enum"
    /\ cur.i >= cur.nvml.deviceCount
    /\ h' = [h EXCEPT !.nvml = cur.nvml]
    /\ cur' = NULL
    /\ pc' = "returned"
    /\ last' = [last EXCEPT !.status = "nvml"]
    /\ UNCHANGED <<isNvmlLoaded, nvmlUsers, run, env>>

\* NvCtrlNvmlAttributesClose(h)
NvCtrlNvmlAttributesClose ==
    /\ pc = "idle"
    /\ h' = IF h = NULL THEN h ELSE [h EXCEPT !.nvml = NULL]
    /\ last' = [Call("NvCtrlNvmlAttributesClose", "void", {}) EXCEPT !.deref = h # NULL]
    /\ pc' = "returned"
    /\ UNCHANGED <<isNvmlLoaded, nvmlUsers, run, cur, env>>

(***************************************************************************)
(* Target resolver: getThermalCoolerId.                                    *)
(***************************************************************************)

\* mutant: the position is taken from the count that includes the owning device
RECURSIVE ThermalCoolerLoop_AfterDevice(_, _, _, _)
ThermalCoolerLoop_AfterDevice(hh, perGPU, i, count) ==
    IF i >= hh.nvml.deviceCount THEN -1
    ELSE LET tmp == count + perGPU[i] IN
         IF hh.target_id < tmp THEN hh.target_id - tmp
         ELSE ThermalCoolerLoop_AfterDevice(hh, perGPU, i + 1, tmp)

\* "for (i = 0; i < h->nvml->deviceCount; i++)" from i on, count sub-resources seen
RECURSIVE ThermalCoolerLoop(_, _, _, _)
ThermalCoolerLoop(hh, perGPU, i, count) ==
    IF i >= hh.nvml.deviceCount THEN -1
    ELSE LET tmp == count + perGPU[i] IN
         IF hh.target_id < tmp THEN hh.target_id - count
         ELSE ThermalCoolerLoop(hh, perGPU, i + 1, tmp)

\* mutant: the global index is returned instead of the position in the device
getThermalCoolerId_GlobalIndex(hh, thermalCoolerCount, thermalCoolerCountPerGPU) ==
    IF hh.target_id < 0 \/ hh.target_id >= thermalCoolerCount THEN -1
    ELSE hh.target_id

getThermalCoolerId(hh, thermalCoolerCount, thermalCoolerCountPerGPU) ==
    IF hh.target_id < 0 \/ hh.target_id >= thermalCoolerCount THEN -1
    ELSE ThermalCoolerLoop(hh, thermalCoolerCountPerGPU, 0, 0)

(***************************************************************************)
(* Attribute ids: the case labels of each switch.                          *)
(***************************************************************************)

\* NvCtrlNvmlGetGPUStringAttribute: the cases that make an NVML call
GpuStringVendor ==
    {"NV_CTRL_STRING_PRODUCT_NAME", "NV_CTRL_STRING_VBIOS_VERSION",
     "NV_CTRL_STRING_GPU_UUID"}

\* NvCtrlNvmlGetGPUStringAttribute: the cases that return NvCtrlNotSupported
GpuStringPending ==
    {"NV_CTRL_STRING_NVIDIA_DRIVER_VERSION", "NV_CTRL_STRING_SLI_MODE",
     "NV_CTRL_STRING_PERFORMANCE_MODES", "NV_CTRL_STRING_GPU_CURRENT_CLOCK_FREQS",
     "NV_CTRL_STRING_GPU_UTILIZATION", "NV_CTRL_STRING_MULTIGPU_MODE",
     "NV_CTRL_STRING_GVIO_FIRMWARE_VERSION"}

\* NvCtrlNvmlSetGPUStringAttribute: the cases that return NvCtrlNotSupported
GpuSetStringPending ==
    {"NV_CTRL_STRING_GPU_CURRENT_CLOCK_FREQS"}

\* NvCtrlNvmlGetGPUAttribute: the cases that make an NVML call
GpuIntVendor ==
    {"NV_CTRL_TOTAL_DEDICATED_GPU_MEMORY", "NV_CTRL_USED_DEDICATED_GPU_MEMORY",
     "NV_CTRL_PCI_DOMAIN", "NV_CTRL_PCI_BUS",
     "NV_CTRL_PCI_DEVICE", "NV_CTRL_PCI_FUNCTION",
     "NV_CTRL_PCI_ID", "NV_CTRL_GPU_PCIE_GENERATION",
     "NV_CTRL_GPU_PCIE_MAX_LINK_WIDTH"}

\* NvCtrlNvmlGetGPUAttribute: the cases that return NvCtrlNotSupported
GpuIntPending ==
    {"NV_CTRL_VIDEO_RAM", "NV_CTRL_GPU_PCIE_CURRENT_LINK_WIDTH",
     "NV_CTRL_GPU_PCIE_MAX_LINK_SPEED", "NV_CTRL_GPU_PCIE_CURRENT_LINK_SPEED",
     "NV_CTRL_BUS_TYPE", "NV_CTRL_GPU_MEMORY_BUS_WIDTH",
     "NV_CTRL_GPU_CORES", "NV_CTRL_IRQ",
     "NV_CTRL_GPU_COOLER_MANUAL_CONTROL", "NV_CTRL_GPU_POWER_SOURCE",
     "NV_CTRL_GPU_CURRENT_PERFORMANCE_LEVEL", "NV_CTRL_GPU_ADAPTIVE_CLOCK_STATE",
     "NV_CTRL_GPU_POWER_MIZER_MODE", "NV_CTRL_GPU_POWER_MIZER_DEFAULT_MODE",
     "NV_CTRL_GPU_DOUBLE_PRECISION_BOOST_IMMEDIATE", "NV_CTRL_GPU_DOUBLE_PRECISION_BOOST_REBOOT",
     "NV_CTRL_GPU_ECC_SUPPORTED", "NV_CTRL_GPU_ECC_STATUS",
     "NV_CTRL_GPU_ECC_CONFIGURATION", "NV_CTRL_GPU_ECC_DEFAULT_CONFIGURATION",
     "NV_CTRL_GPU_ECC_DOUBLE_BIT_ERRORS", "NV_CTRL_GPU_ECC_AGGREGATE_DOUBLE_BIT_ERRORS",
     "NV_CTRL_GPU_ECC_CONFIGURATION_SUPPORTED", "NV_CTRL_ENABLED_DISPLAYS",
     "NV_CTRL_CONNECTED_DISPLAYS", "NV_CTRL_MAX_SCREEN_WIDTH",
     "NV_CTRL_MAX_SCREEN_HEIGHT", "NV_CTRL_MAX_DISPLAYS",
     "NV_CTRL_DEPTH_30_ALLOWED", "NV_CTRL_MULTIGPU_MASTER_POSSIBLE",
     "NV_CTRL_SLI_MOSAIC_MODE_AVAILABLE", "NV_CTRL_BASE_MOSAIC",
     "NV_CTRL_XINERAMA", "NV_CTRL_ATTR_NV_MAJOR_VERSION",
     "NV_CTRL_ATTR_NV_MINOR_VERSION", "NV_CTRL_OPERATING_SYSTEM",
     "NV_CTRL_NO_SCANOUT", "NV_CTRL_GPU_CORE_TEMPERATURE",
     "NV_CTRL_AMBIENT_TEMPERATURE", "NV_CTRL_GPU_CURRENT_CLOCK_FREQS",
     "NV_CTRL_GPU_CURRENT_PROCESSOR_CLOCK_FREQS", "NV_CTRL_VIDEO_ENCODER_UTILIZATION",
     "NV_CTRL_VIDEO_DECODER_UTILIZATION", "NV_CTRL_FRAMELOCK",
     "NV_CTRL_IS_GVO_DISPLAY", "NV_CTRL_DITHERING",
     "NV_CTRL_CURRENT_DITHERING", "NV_CTRL_DITHERING_MODE",
     "NV_CTRL_CURRENT_DITHERING_MODE", "NV_CTRL_DITHERING_DEPTH",
     "NV_CTRL_CURRENT_DITHERING_DEPTH", "NV_CTRL_DIGITAL_VIBRANCE",
     "NV_CTRL_IMAGE_SHARPENING_DEFAULT", "NV_CTRL_REFRESH_RATE",
     "NV_CTRL_REFRESH_RATE_3", "NV_CTRL_COLOR_SPACE",
     "NV_CTRL_COLOR_RANGE", "NV_CTRL_SYNCHRONOUS_PALETTE_UPDATES",
     "NV_CTRL_DPY_HDMI_3D"}

\* NvCtrlNvmlGetThermalAttribute: the case that makes an NVML call
ThermalIntVendor ==
    {"NV_CTRL_THERMAL_SENSOR_READING"}

\* NvCtrlNvmlGetThermalAttribute: the cases that return NvCtrlNotSupported
ThermalIntPending ==
    {"NV_CTRL_THERMAL_SENSOR_PROVIDER", "NV_CTRL_THERMAL_SENSOR_TARGET"}

\* NvCtrlNvmlGetCoolerAttribute: the case that makes an NVML call
CoolerIntVendor ==
    {"NV_CTRL_THERMAL_COOLER_LEVEL"}

\* NvCtrlNvmlGetCoolerAttribute: the cases that return NvCtrlNotSupported
CoolerIntPending ==
    {"NV_CTRL_THERMAL_COOLER_SPEED", "NV_CTRL_THERMAL_COOLER_CONTROL_TYPE",
     "NV_CTRL_THERMAL_COOLER_TARGET"}

\* NvCtrlNvmlSetGPUAttribute: the cases that return NvCtrlNotSupported
GpuSetIntPending ==
    {"NV_CTRL_GPU_CURRENT_CLOCK_FREQS", "NV_CTRL_GPU_POWER_MIZER_MODE",
     "NV_CTRL_GPU_ECC_CONFIGURATION", "NV_CTRL_GPU_COOLER_MANUAL_CONTROL",
     "NV_CTRL_DITHERING", "NV_CTRL_DITHERING_MODE",
     "NV_CTRL_DITHERING_DEPTH", "NV_CTRL_DIGITAL_VIBRANCE",
     "NV_CTRL_COLOR_SPACE", "NV_CTRL_COLOR_RANGE",
     "NV_CTRL_SYNCHRONOUS_PALETTE_UPDATES"}

\* NvCtrlNvmlSetCoolerAttribute: the cases that return NvCtrlNotSupported
CoolerSetIntPending ==
    {"NV_CTRL_THERMAL_COOLER_LEVEL", "NV_CTRL_THERMAL_COOLER_LEVEL_SET_DEFAULT"}

\* NvCtrlNvmlGetGPUBinaryAttribute: the cases that return NvCtrlNotSupported
GpuBinaryPending ==
    {"NV_CTRL_BINARY_DATA_FRAMELOCKS_USED_BY_GPU", "NV_CTRL_BINARY_DATA_VCSCS_USED_BY_GPU",
     "NV_CTRL_BINARY_DATA_COOLERS_USED_BY_GPU", "NV_CTRL_BINARY_DATA_THERMAL_SENSORS_USED_BY_GPU",
     "NV_CTRL_BINARY_DATA_DISPLAYS_CONNECTED_TO_GPU", "NV_CTRL_BINARY_DATA_DISPLAYS_ON_GPU",
     "NV_CTRL_BINARY_DATA_GPU_FLAGS", "NV_CTRL_BINARY_DATA_XSCREENS_USING_GPU"}

\* NvCtrlNvmlGetGPUValidStringAttributeValues: the cases that return NvCtrlNotSupported
GpuValidStringPending ==
    {"NV_CTRL_STRING_PRODUCT_NAME", "NV_CTRL_STRING_VBIOS_VERSION",
     "NV_CTRL_STRING_NVIDIA_DRIVER_VERSION", "NV_CTRL_STRING_SLI_MODE",
     "NV_CTRL_STRING_PERFORMANCE_MODES", "NV_CTRL_STRING_MULTIGPU_MODE",
     "NV_CTRL_STRING_GPU_CURRENT_CLOCK_FREQS", "NV_CTRL_STRING_GVIO_FIRMWARE_VERSION",
     "NV_CTRL_STRING_GPU_UUID", "NV_CTRL_STRING_GPU_UTILIZATION"}

\* NvCtrlNvmlGetGPUValidAttributeValues: the cases that return NvCtrlNotSupported
GpuValidIntPending ==
    {"NV_CTRL_VIDEO_RAM", "NV_CTRL_TOTAL_DEDICATED_GPU_MEMORY",
     "NV_CTRL_USED_DEDICATED_GPU_MEMORY", "NV_CTRL_PCI_DOMAIN",
     "NV_CTRL_PCI_BUS", "NV_CTRL_PCI_DEVICE",
     "NV_CTRL_PCI_FUNCTION", "NV_CTRL_PCI_ID",
     "NV_CTRL_GPU_PCIE_GENERATION", "NV_CTRL_GPU_PCIE_MAX_LINK_WIDTH",
     "NV_CTRL_GPU_PCIE_CURRENT_LINK_WIDTH", "NV_CTRL_GPU_PCIE_MAX_LINK_SPEED",
     "NV_CTRL_GPU_PCIE_CURRENT_LINK_SPEED", "NV_CTRL_BUS_TYPE",
     "NV_CTRL_GPU_MEMORY_BUS_WIDTH", "NV_CTRL_GPU_CORES",
     "NV_CTRL_IRQ", "NV_CTRL_GPU_COOLER_MANUAL_CONTROL",
     "NV_CTRL_GPU_POWER_SOURCE", "NV_CTRL_GPU_CURRENT_PERFORMANCE_LEVEL",
     "NV_CTRL_GPU_ADAPTIVE_CLOCK_STATE", "NV_CTRL_GPU_POWER_MIZER_MODE",
     "NV_CTRL_GPU_POWER_MIZER_DEFAULT_MODE", "NV_CTRL_GPU_DOUBLE_PRECISION_BOOST_IMMEDIATE",
     "NV_CTRL_GPU_DOUBLE_PRECISION_BOOST_REBOOT", "NV_CTRL_GPU_ECC_SUPPORTED",
     "NV_CTRL_GPU_ECC_STATUS", "NV_CTRL_GPU_ECC_CONFIGURATION",
     "NV_CTRL_GPU_ECC_DEFAULT_CONFIGURATION", "NV_CTRL_GPU_ECC_DOUBLE_BIT_ERRORS",
     "NV_CTRL_GPU_ECC_AGGREGATE_DOUBLE_BIT_ERRORS", "NV_CTRL_GPU_ECC_CONFIGURATION_SUPPORTED",
     "NV_CTRL_ENABLED_DISPLAYS", "NV_CTRL_CONNECTED_DISPLAYS",
     "NV_CTRL_MAX_SCREEN_WIDTH", "NV_CTRL_MAX_SCREEN_HEIGHT",
     "NV_CTRL_MAX_DISPLAYS", "NV_CTRL_DEPTH_30_ALLOWED",
     "NV_CTRL_MULTIGPU_MASTER_POSSIBLE", "NV_CTRL_SLI_MOSAIC_MODE_AVAILABLE",
     "NV_CTRL_BASE_MOSAIC", "NV_CTRL_XINERAMA",
     "NV_CTRL_ATTR_NV_MAJOR_VERSION", "NV_CTRL_ATTR_NV_MINOR_VERSION",
     "NV_CTRL_OPERATING_SYSTEM", "NV_CTRL_NO_SCANOUT",
     "NV_CTRL_GPU_CORE_TEMPERATURE", "NV_CTRL_AMBIENT_TEMPERATURE",
     "NV_CTRL_GPU_CURRENT_CLOCK_FREQS", "NV_CTRL_GPU_CURRENT_PROCESSOR_CLOCK_FREQS",
     "NV_CTRL_VIDEO_ENCODER_UTILIZATION", "NV_CTRL_VIDEO_DECODER_UTILIZATION",
     "NV_CTRL_FRAMELOCK", "NV_CTRL_IS_GVO_DISPLAY",
     "NV_CTRL_DITHERING", "NV_CTRL_CURRENT_DITHERING",
     "NV_CTRL_DITHERING_MODE", "NV_CTRL_CURRENT_DITHERING_MODE",
     "NV_CTRL_DITHERING_DEPTH", "NV_CTRL_CURRENT_DITHERING_DEPTH",
     "NV_CTRL_DIGITAL_VIBRANCE", "NV_CTRL_IMAGE_SHARPENING_DEFAULT",
     "NV_CTRL_REFRESH_RATE", "NV_CTRL_REFRESH_RATE_3",
     "NV_CTRL_COLOR_SPACE", "NV_CTRL_COLOR_RANGE",
     "NV_CTRL_SYNCHRONOUS_PALETTE_UPDATES", "NV_CTRL_DPY_HDMI_3D"}

\* NvCtrlNvmlGetThermalValidAttributeValues: the cases that return NvCtrlNotSupported
ThermalValidIntPending ==
    {"NV_CTRL_THERMAL_SENSOR_READING", "NV_CTRL_THERMAL_SENSOR_PROVIDER",
     "NV_CTRL_THERMAL_SENSOR_TARGET"}

\* NvCtrlNvmlGetCoolerValidAttributeValues: the cases that return NvCtrlNotSupported
CoolerValidIntPending ==
    {"NV_CTRL_THERMAL_COOLER_LEVEL", "NV_CTRL_THERMAL_COOLER_SPEED",
     "NV_CTRL_THERMAL_COOLER_CONTROL_TYPE", "NV_CTRL_THERMAL_COOLER_TARGET"}

\* the NVML call behind each integer attribute of a GPU
GpuIntCalls ==
    [a \in GpuIntVendor |->
        IF a \in {"NV_CTRL_TOTAL_DEDICATED_GPU_MEMORY", "NV_CTRL_USED_DEDICATED_GPU_MEMORY"}
        THEN "nvmlDeviceGetMemoryInfo"
        ELSE IF a = "NV_CTRL_GPU_PCIE_GENERATION" THEN "nvmlDeviceGetMaxPcieLinkGeneration"
        ELSE IF a = "NV_CTRL_GPU_PCIE_MAX_LINK_WIDTH" THEN "nvmlDeviceGetMaxPcieLinkWidth"
        ELSE "nvmlDeviceGetPciInfo"]

\* the NVML call behind each string attribute of a GPU
GpuStringCalls ==
    [a \in GpuStringVendor |->
        IF a = "NV_CTRL_STRING_PRODUCT_NAME" THEN "nvmlDeviceGetName"
        ELSE IF a = "NV_CTRL_STRING_VBIOS_VERSION" THEN "nvmlDeviceGetVbiosVersion"
        ELSE "nvmlDeviceGetUUID"]

ThermalIntCalls == [a \in ThermalIntVendor |-> "nvmlDeviceGetTemperature"]

CoolerIntCalls == [a \in CoolerIntVendor |-> "nvmlDeviceGetFanSpeed"]

\* a switch without a case that calls NVML
NoCalls == [a \in {} |-> ""]

\* the integer attribute ids callers pass: one or two of each switch, and one
\* that no switch names
IntAttrs ==
    {"NV_CTRL_TOTAL_DEDICATED_GPU_MEMORY", "NV_CTRL_VIDEO_RAM",
     "NV_CTRL_GPU_POWER_MIZER_MODE",
     "NV_CTRL_THERMAL_SENSOR_READING", "NV_CTRL_THERMAL_SENSOR_PROVIDER",
     "NV_CTRL_THERMAL_COOLER_LEVEL", "NV_CTRL_THERMAL_COOLER_SPEED",
     "NV_CTRL_GPU_NVCLOCK_OFFSET"}

\* the string attribute ids callers pass
StringAttrs ==
    {"NV_CTRL_STRING_PRODUCT_NAME", "NV_CTRL_STRING_GPU_CURRENT_CLOCK_FREQS",
     "NV_CTRL_STRING_SLI_MODE", "NV_CTRL_STRING_DISPLAY_DEVICE_NAME"}

\* the binary attribute ids callers pass
BinaryAttrs ==
    {"NV_CTRL_BINARY_DATA_GPU_FLAGS", "NV_CTRL_BINARY_DATA_EDID"}

(***************************************************************************)
(* Attribute entry points.                                                 *)
(*   hh       the private handle behind ctrl_target (NULL or a handle)     *)
(*   type     the target type of the request                               *)
(*   devOk    nvmlDeviceGetHandleByIndex(deviceIdx) succeeds               *)
(*   propOk   the NVML property call succeeds                              *)
(*   ndebug   the build compiles assert() out                              *)
(***************************************************************************)

\* mutant: "default:" returns NvCtrlNotSupported without the warning
DeviceSwitch_SilentDefault(op, attr, calls, pending, warns, devOk, propOk) ==
    IF ~devOk
    THEN [Call(op, NvCtrlNotSupported, {"nvmlDeviceGetHandleByIndex"})
            EXCEPT !.logged = TRUE]
    ELSE IF attr \in DOMAIN calls
    THEN IF propOk
         THEN [Call(op, NvCtrlSuccess, {"nvmlDeviceGetHandleByIndex", calls[attr]})
                 EXCEPT !.wrote = TRUE]
         ELSE [Call(op, NvCtrlNotSupported, {"nvmlDeviceGetHandleByIndex", calls[attr]})
                 EXCEPT !.logged = TRUE]
    ELSE IF attr \in pending \/ warns
    THEN Call(op, NvCtrlNotSupported, {"nvmlDeviceGetHandleByIndex"})
    ELSE Call(op, NvCtrlAttributeNotAvailable, {"nvmlDeviceGetHandleByIndex"})

\* mutant: a failed NVML property call stores the result and returns success
DeviceSwitch_IgnoresPropertyError(op, attr, calls, pending, warns, devOk, propOk) ==
    IF ~devOk
    THEN [Call(op, NvCtrlNotSupported, {"nvmlDeviceGetHandleByIndex"})
            EXCEPT !.logged = TRUE]
    ELSE IF attr \in DOMAIN calls
    THEN [Call(op, NvCtrlSuccess, {"nvmlDeviceGetHandleByIndex", calls[attr]})
            EXCEPT !.wrote = TRUE]
    ELSE IF attr \in pending
    THEN Call(op, NvCtrlNotSupported, {"nvmlDeviceGetHandleByIndex"})
    ELSE IF warns
    THEN [Call(op, NvCtrlNotSupported, {"nvmlDeviceGetHandleByIndex"})
            EXCEPT !.warned = 1]
    ELSE Call(op, NvCtrlAttributeNotAvailable, {"nvmlDeviceGetHandleByIndex"})

\* "ret = nvmlDeviceGetHandleByIndex(..); if (ret == NVML_SUCCESS) { switch (attr)
\* .. }": calls maps the cases that call NVML, pending is the cases that return
\* NvCtrlNotSupported, warns says whether "default:" warns and returns
\* NvCtrlNotSupported or returns NvCtrlAttributeNotAvailable
DeviceSwitch(op, attr, calls, pending, warns, devOk, propOk) ==
    IF ~devOk
    THEN [Call(op, NvCtrlNotSupported, {"nvmlDeviceGetHandleByIndex"})
            EXCEPT !.logged = TRUE]
    ELSE IF attr \in DOMAIN calls
    THEN IF propOk
         THEN [Call(op, NvCtrlSuccess, {"nvmlDeviceGetHandleByIndex", calls[attr]})
                 EXCEPT !.wrote = TRUE]
         ELSE [Call(op, NvCtrlNotSupported, {"nvmlDeviceGetHandleByIndex", calls[attr]})
                 EXCEPT !.logged = TRUE]
    ELSE IF attr \in pending
    THEN Call(op, NvCtrlNotSupported, {"nvmlDeviceGetHandleByIndex"})
    ELSE IF warns
    THEN [Call(op, NvCtrlNotSupported, {"nvmlDeviceGetHandleByIndex"})
            EXCEPT !.warned = 1]
    ELSE Call(op, NvCtrlAttributeNotAvailable, {"nvmlDeviceGetHandleByIndex"})

\* the per-target functions of a GPU: the handle test, then the switch
GpuSwitch(op, hh, attr, calls, pending, warns, devOk, propOk) ==
    IF NoAttributes(hh) THEN Call(op, NvCtrlBadHandle, {})
    ELSE DeviceSwitch(op, attr, calls, pending, warns, devOk, propOk)

\* mutant: the sensor and cooler functions go to the switch without the resolver
ThermalCoolerSwitch_NoResolver(op, hh, type, attr, calls, pending, warns, devOk, propOk) ==
    IF NoAttributes(hh) THEN Call(op, NvCtrlBadHandle, {})
    ELSE DeviceSwitch(op, attr, calls, pending, warns, devOk, propOk)

\* the per-target functions of a sensor or cooler: the handle test, the
\* resolver on the sensor or the cooler counts, then the switch
ThermalCoolerSwitch(op, hh, type, attr, calls, pending, warns, devOk, propOk) ==
    IF NoAttributes(hh) THEN Call(op, NvCtrlBadHandle, {})
    ELSE LET id == IF type = THERMAL_SENSOR_TARGET
                   THEN getThermalCoolerId(hh, hh.nvml.sensorCount,
                                           hh.nvml.sensorCountPerGPU)
                   ELSE getThermalCoolerId(hh, hh.nvml.coolerCount,
                                           hh.nvml.coolerCountPerGPU)
         IN  IF id = -1 THEN Call(op, NvCtrlBadHandle, {})
             ELSE DeviceSwitch(op, attr, calls, pending, warns, devOk, propOk)

\* "Unhandled ... attribute": a warning and NvCtrlNotSupported
Unhandled(op) == [Call(op, NvCtrlNotSupported, {}) EXCEPT !.warned = 1]

\* mutant: the entry points run without the "is NVML loaded" test
Guarded_NoLoadedTest(op, loaded, hh, type, ndebug, body) ==
    IF ~ndebug /\ ~TARGET_TYPE_IS_NVML_COMPATIBLE(type) THEN Call(op, Aborted, {})
    ELSE [body EXCEPT !.deref = hh # NULL]

\* the head of every entry point: the "is NVML loaded" test, then the assert
\* on the target type; past them the handle behind ctrl_target is read
Guarded(op, loaded, hh, type, ndebug, body) ==
    IF ~loaded THEN Call(op, NvCtrlMissingExtension, {})
    ELSE IF ~ndebug /\ ~TARGET_TYPE_IS_NVML_COMPATIBLE(type) THEN Call(op, Aborted, {})
    ELSE [body EXCEPT !.deref = hh # NULL]

\* mutant: the switch on the target type comes before the handle test
QueryTargetCount_TypeFirst(loaded, hh, type, ndebug) ==
    LET op == "NvCtrlNvmlQueryTargetCount" IN
    Guarded(op, loaded, hh, type, ndebug,
        IF ~TARGET_TYPE_IS_NVML_COMPATIBLE(type) THEN Call(op, NvCtrlBadArgument, {})
        ELSE IF NoAttributes(hh) THEN Call(op, NvCtrlBadHandle, {})
        ELSE [Call(op, NvCtrlSuccess, {}) EXCEPT
                !.wrote = TRUE,
                !.value = IF type = GPU_TARGET THEN hh.nvml.deviceCount
                          ELSE IF type = THERMAL_SENSOR_TARGET THEN hh.nvml.sensorCount
                          ELSE hh.nvml.coolerCount])

\* getPrivateHandleConst(ctrl_target) comes first here and yields the pointer
\* hh; nothing is read through it before the two tests
QueryTargetCount(loaded, hh, type, ndebug) ==
    LET op == "NvCtrlNvmlQueryTargetCount" IN
    Guarded(op, loaded, hh, type, ndebug,
        IF NoAttributes(hh) THEN Call(op, NvCtrlBadHandle, {})
        ELSE IF type \in {GPU_TARGET, THERMAL_SENSOR_TARGET, COOLER_TARGET}
        THEN [Call(op, NvCtrlSuccess, {}) EXCEPT
                !.wrote = TRUE,
                !.value = IF type = GPU_TARGET THEN hh.nvml.deviceCount
                          ELSE IF type = THERMAL_SENSOR_TARGET THEN hh.nvml.sensorCount
                          ELSE hh.nvml.coolerCount]
        ELSE Call(op, NvCtrlBadArgument, {}))

\* NvCtrlNvmlGetGPUStringAttribute stores NULL in "*ptr" before its handle test
GetStringAttribute(loaded, hh, type, attr, ndebug, devOk, propOk) ==
    LET op == "NvCtrlNvmlGetStringAttribute" IN
    Guarded(op, loaded, hh, type, ndebug,
        IF type = GPU_TARGET
        THEN [GpuSwitch(op, hh, attr, GpuStringCalls, GpuStringPending, TRUE, devOk, propOk)
                EXCEPT !.wrote = TRUE]
        ELSE IF type \in {THERMAL_SENSOR_TARGET, COOLER_TARGET} THEN Unhandled(op)
        ELSE Call(op, NvCtrlBadHandle, {}))

SetStringAttribute(loaded, hh, type, attr, ndebug, devOk) ==
    LET op == "NvCtrlNvmlSetStringAttribute" IN
    Guarded(op, loaded, hh, type, ndebug,
        IF type = GPU_TARGET
        THEN GpuSwitch(op, hh, attr, NoCalls, GpuSetStringPending, TRUE, devOk, TRUE)
        ELSE IF type \in {THERMAL_SENSOR_TARGET, COOLER_TARGET} THEN Unhandled(op)
        ELSE Call(op, NvCtrlBadHandle, {}))

GetAttribute(loaded, hh, type, attr, ndebug, devOk, propOk) ==
    LET op == "NvCtrlNvmlGetAttribute" IN
    Guarded(op, loaded, hh, type, ndebug,
        IF type = GPU_TARGET
        THEN GpuSwitch(op, hh, attr, GpuIntCalls, GpuIntPending, TRUE, devOk, propOk)
        ELSE IF type = THERMAL_SENSOR_TARGET
        THEN ThermalCoolerSwitch(op, hh, type, attr, ThermalIntCalls, ThermalIntPending, TRUE, devOk, propOk)
        ELSE IF type = COOLER_TARGET
        THEN ThermalCoolerSwitch(op, hh, type, attr, CoolerIntCalls, CoolerIntPending, TRUE, devOk, propOk)
        ELSE Call(op, NvCtrlBadHandle, {}))

SetAttribute(loaded, hh, type, attr, ndebug, devOk) ==
    LET op == "NvCtrlNvmlSetAttribute" IN
    Guarded(op, loaded, hh, type, ndebug,
        IF type = GPU_TARGET
        THEN GpuSwitch(op, hh, attr, NoCalls, GpuSetIntPending, TRUE, devOk, TRUE)
        ELSE IF type = THERMAL_SENSOR_TARGET THEN Unhandled(op)
        ELSE IF type = COOLER_TARGET
        THEN ThermalCoolerSwitch(op, hh, type, attr, NoCalls, CoolerSetIntPending, TRUE, devOk, TRUE)
        ELSE Call(op, NvCtrlBadHandle, {}))

GetBinaryAttribute(loaded, hh, type, attr, ndebug, devOk) ==
    LET op == "NvCtrlNvmlGetBinaryAttribute" IN
    Guarded(op, loaded, hh, type, ndebug,
        IF type = GPU_TARGET
        THEN GpuSwitch(op, hh, attr, NoCalls, GpuBinaryPending, TRUE, devOk, TRUE)
        ELSE IF type \in {THERMAL_SENSOR_TARGET, COOLER_TARGET} THEN Unhandled(op)
        ELSE Call(op, NvCtrlBadHandle, {}))

\* what the NV-CONTROL valid-values functions return: any ReturnStatus
LegacyStatuses == {NvCtrlAttributeNotAvailable, NvCtrlSuccess, NvCtrlError}

\* what "h->nv" yields: the field of the handle, or through a NULL handle a
\* fault or an arbitrary word
LegacyBackendReads(hh) ==
    IF hh = NULL THEN {Faulted, "zero", "nonzero"}
    ELSE IF hh.nv THEN {"nonzero"} ELSE {"zero"}

\* mutant: NvCtrlMissingExtension is returned without the test of "h->nv"
LegacyFallback_NoBackendTest(r, nvRead, ret2, ndebug) ==
    IF r.status # NvCtrlAttributeNotAvailable THEN r
    ELSE IF nvRead = Faulted THEN [r EXCEPT !.status = Faulted]
    ELSE [r EXCEPT !.status = NvCtrlMissingExtension]

\* mutant: the NV-CONTROL function is called whether or not "h->nv" is set
LegacyFallback_CallsWithoutBackend(r, nvRead, ret2, ndebug) ==
    IF r.status # NvCtrlAttributeNotAvailable THEN r
    ELSE IF nvRead = Faulted THEN [r EXCEPT !.status = Faulted]
    ELSE IF ~ndebug /\ ret2 # NvCtrlAttributeNotAvailable
    THEN [r EXCEPT !.status = Aborted, !.legacy = TRUE]
    ELSE [r EXCEPT !.status = ret2, !.legacy = TRUE]

\* "if (ret == NvCtrlAttributeNotAvailable) { .. }" at the end of the two
\* valid-values entry points: r is the outcome of the switch, nvRead what
\* "h->nv" yields, ret2 what the NV-CONTROL function returns
LegacyFallback(r, nvRead, ret2, ndebug) ==
    IF r.status # NvCtrlAttributeNotAvailable THEN r
    ELSE IF nvRead = Faulted THEN [r EXCEPT !.status = Faulted]
    ELSE IF nvRead = "zero" THEN [r EXCEPT !.status = NvCtrlMissingExtension]
    ELSE IF ~ndebug /\ ret2 # NvCtrlAttributeNotAvailable
    THEN [r EXCEPT !.status = Aborted, !.legacy = TRUE]
    ELSE [r EXCEPT !.status = ret2, !.legacy = TRUE]

\* NvCtrlNvmlGetValidStringAttributeValues up to the end of its switch
ValidStringSwitch(loaded, hh, type, attr, ndebug) ==
    LET op == "NvCtrlNvmlGetValidStringAttributeValues" IN
    Guarded(op, loaded, hh, type, ndebug,
        IF type = GPU_TARGET
        THEN IF attr \in GpuValidStringPending THEN Call(op, NvCtrlNotSupported, {})
             ELSE Call(op, NvCtrlAttributeNotAvailable, {})
        ELSE IF type \in {THERMAL_SENSOR_TARGET, COOLER_TARGET}
        THEN Call(op, NvCtrlAttributeNotAvailable, {})
        ELSE Call(op, NvCtrlBadHandle, {}))

GetValidStringAttributeValues(loaded, hh, type, attr, ndebug, nvRead, ret2) ==
    LegacyFallback(ValidStringSwitch(loaded, hh, type, attr, ndebug), nvRead, ret2, ndebug)

\* NvCtrlNvmlGetValidAttributeValues up to the end of its switch
ValidSwitch(loaded, hh, type, attr, ndebug, devOk) ==
    LET op == "NvCtrlNvmlGetValidAttributeValues" IN
    Guarded(op, loaded, hh, type, ndebug,
        IF type = GPU_TARGET
        THEN GpuSwitch(op, hh, attr, NoCalls, GpuValidIntPending, FALSE, devOk, TRUE)
        ELSE IF type = THERMAL_SENSOR_TARGET
        THEN ThermalCoolerSwitch(op, hh, type, attr, NoCalls, ThermalValidIntPending,
                                 FALSE, devOk, TRUE)
        ELSE IF type = COOLER_TARGET
        THEN ThermalCoolerSwitch(op, hh, type, attr, NoCalls, CoolerValidIntPending,
                                 FALSE, devOk, TRUE)
        ELSE Call(op, NvCtrlBadHandle, {}))

GetValidAttributeValues(loaded, hh, type, attr, ndebug, devOk, nvRead, ret2) ==
    LegacyFallback(ValidSwitch(loaded, hh, type, attr, ndebug, devOk), nvRead, ret2, ndebug)

(***************************************************************************)
(* The program: lifecycle calls, handle construction and close, and the    *)
(* attribute entry points, on one target handle.  A call leaves its        *)
(* outcome in `last` until the caller resumes.                             *)
(***************************************************************************)

\* the private handle behind the ctrl_target of a request: the target's handle,
\* NULL as long as the target has none
Targets == {h}

\* NvCtrlGetTargetType(ctrl_target): the type of the handle; any type when
\* there is no handle behind ctrl_target
TypesOf(hh) == IF hh = NULL THEN TargetTypes ELSE {hh.target_type}

\* the builds that differ on a request of this type: with or without assert()
Builds(type) == IF TARGET_TYPE_IS_NVML_COMPATIBLE(type) THEN {TRUE} ELSE BOOLEAN

\* the outcomes of the NVML calls a request on hh can make: both succeed, the
\* device handle lookup fails, or the property call fails
VendorOutcomes(hh) ==
    IF ~isNvmlLoaded \/ NoAttributes(hh)
    THEN {[devOk |-> TRUE, propOk |-> TRUE]}
    ELSE {[devOk |-> TRUE, propOk |-> TRUE], [devOk |-> FALSE, propOk |-> TRUE],
          [devOk |-> TRUE, propOk |-> FALSE]}

\* what the legacy fallback meets after a switch that ended in r: nothing when
\* it is not entered; else what "h->nv" yields and, when the NV-CONTROL function
\* is called, what it returns
LegacyOutcomes(r, hh) ==
    IF r.status # NvCtrlAttributeNotAvailable
    THEN {[nvRead |-> "unread", ret2 |-> NvCtrlAttributeNotAvailable]}
    ELSE {[nvRead |-> n, ret2 |-> s] :
             n \in LegacyBackendReads(hh) \ {"nonzero"},
             s \in {NvCtrlAttributeNotAvailable}}
         \cup {[nvRead |-> n, ret2 |-> s] :
                  n \in LegacyBackendReads(hh) \cap {"nonzero"}, s \in LegacyStatuses}

\* the outcomes of the device handle lookup alone
LookupOutcomes(hh) == {v.devOk : v \in VendorOutcomes(hh)}

\* mutant: an attribute call drops the attributes of the handle it served
Return_ClosesHandle(r) ==
    /\ last' = r
    /\ pc' = IF r.status \in {Aborted, Faulted} THEN "crashed" ELSE "returned"
    /\ h' = IF r.deref THEN [h EXCEPT !.nvml = NULL] ELSE h
    /\ UNCHANGED <<isNvmlLoaded, nvmlUsers, run, cur, env>>

\* a call returns, or the process ends in abort() or a fault
Return(r) ==
    /\ last' = r
    /\ pc' = IF r.status \in {Aborted, Faulted} THEN "crashed" ELSE "returned"
    /\ UNCHANGED <<isNvmlLoaded, nvmlUsers, run, h, cur, env>>

\* the caller goes on after a call
Resume ==
    /\ pc = "returned"
    /\ pc' = "idle"
    /\ last' = NoCall
    /\ UNCHANGED <<isNvmlLoaded, nvmlUsers, run, h, cur, env>>

\* the owners of the target handle acquire and release the library
CallInitNvml ==
    \E ok \in BOOLEAN :
        /\ NvCtrlInitNvml(ok)
        /\ Within(MaxHolders, nvmlUsers')
        /\ pc' = "returned"
        /\ UNCHANGED run

CallDestroyNvml ==
    \E ok \in BOOLEAN :
        /\ NvCtrlDestroyNvml(ok)
        /\ Within(MaxHolders, nvmlUsers')
        /\ pc' = "returned"
        /\ UNCHANGED run

NvCtrlNvmlQueryTargetCount ==
    /\ pc = "idle"
    /\ \E hh \in Targets, type \in TargetTypes :
          \E ndebug \in Builds(type) :
             Return(QueryTargetCount(isNvmlLoaded, hh, type, ndebug))

NvCtrlNvmlGetStringAttribute ==
    /\ pc = "idle"
    /\ \E hh \in Targets, attr \in StringAttrs :
          \E type \in TypesOf(hh), v \in VendorOutcomes(hh) :
             \E ndebug \in Builds(type) :
                Return(GetStringAttribute(isNvmlLoaded, hh, type, attr, ndebug,
                                          v.devOk, v.propOk))

NvCtrlNvmlSetStringAttribute ==
    /\ pc = "idle"
    /\ \E hh \in Targets, attr \in StringAttrs :
          \E type \in TypesOf(hh), devOk \in LookupOutcomes(hh) :
             \E ndebug \in Builds(type) :
                Return(SetStringAttribute(isNvmlLoaded, hh, type, attr, ndebug, devOk))

NvCtrlNvmlGetAttribute ==
    /\ pc = "idle"
    /\ \E hh \in Targets, attr \in IntAttrs :
          \E type \in TypesOf(hh), v \in VendorOutcomes(hh) :
             \E ndebug \in Builds(type) :
                Return(GetAttribute(isNvmlLoaded, hh, type, attr, ndebug,
                                    v.devOk, v.propOk))

NvCtrlNvmlSetAttribute ==
    /\ pc = "idle"
    /\ \E hh \in Targets, attr \in IntAttrs :
          \E type \in TypesOf(hh), devOk \in LookupOutcomes(hh) :
             \E ndebug \in Builds(type) :
                Return(SetAttribute(isNvmlLoaded, hh, type, attr, ndebug, devOk))

NvCtrlNvmlGetBinaryAttribute ==
    /\ pc = "idle"
    /\ \E hh \in Targets, attr \in BinaryAttrs :
          \E type \in TypesOf(hh), devOk \in LookupOutcomes(hh) :
             \E ndebug \in Builds(type) :
                Return(GetBinaryAttribute(isNvmlLoaded, hh, type, attr, ndebug, devOk))

NvCtrlNvmlGetValidStringAttributeValues ==
    /\ pc = "idle"
    /\ \E hh \in Targets, attr \in StringAttrs, ndebug \in BOOLEAN :
          \E type \in TypesOf(hh) :
             \E legacy \in LegacyOutcomes(
                               ValidStringSwitch(isNvmlLoaded, hh, type, attr, ndebug), hh) :
                Return(GetValidStringAttributeValues(isNvmlLoaded, hh, type, attr, ndebug,
                                                     legacy.nvRead, legacy.ret2))

NvCtrlNvmlGetValidAttributeValues ==
    /\ pc = "idle"
    /\ \E hh \in Targets, attr \in IntAttrs, ndebug \in BOOLEAN :
          \E type \in TypesOf(hh), devOk \in LookupOutcomes(hh) :
             \E legacy \in LegacyOutcomes(
                               ValidSwitch(isNvmlLoaded, hh, type, attr, ndebug, devOk), hh) :
                Return(GetValidAttributeValues(isNvmlLoaded, hh, type, attr, ndebug, devOk,
                                               legacy.nvRead, legacy.ret2))

Init ==
    /\ isNvmlLoaded = FALSE
    /\ nvmlUsers = 0
    /\ run = NoRun
    /\ h = NULL
    /\ pc = "idle"
    /\ cur = NULL
    /\ env = NULL
    /\ last = NoCall

Next ==
    \/ CallInitNvml
    \/ CallDestroyNvml
    \/ InitAttributesBadParameters
    \/ InitAttributesFail
    \/ InitAttributesEnter
    \/ InitAttributesMatch
    \/ InitAttributesEnumerate
    \/ InitAttributesReturn
    \/ NvCtrlNvmlAttributesClose
    \/ NvCtrlNvmlQueryTargetCount
    \/ NvCtrlNvmlGetStringAttribute
    \/ NvCtrlNvmlSetStringAttribute
    \/ NvCtrlNvmlGetAttribute
    \/ NvCtrlNvmlSetAttribute
    \/ NvCtrlNvmlGetBinaryAttribute
    \/ NvCtrlNvmlGetValidStringAttributeValues
    \/ NvCtrlNvmlGetValidAttributeValues
    \/ Resume

Spec == Init /\ [][Next]_vars

(***************************************************************************)
(* Claims on the program (Spec).                                           *)
(***************************************************************************)

\* the attribute entry points
EntryPoints ==
    {"NvCtrlNvmlQueryTargetCount", "NvCtrlNvmlGetStringAttribute",
     "NvCtrlNvmlSetStringAttribute", "NvCtrlNvmlGetAttribute", "NvCtrlNvmlSetAttribute",
     "NvCtrlNvmlGetBinaryAttribute", "NvCtrlNvmlGetValidStringAttributeValues",
     "NvCtrlNvmlGetValidAttributeValues"}

\* the two valid-values queries
ValidValuesEntryPoints ==
    {"NvCtrlNvmlGetValidStringAttributeValues", "NvCtrlNvmlGetValidAttributeValues"}

\* C4: in every reachable state, the library being loaded implies that the
\* reference count is at least 1.
C4_LoadedImpliesUsers == isNvmlLoaded => nvmlUsers >= 1

\* C5: while the library is not loaded, every attribute entry point returns
\* NvCtrlMissingExtension, whatever the handle, target type and attribute id,
\* having made no NVML or NV-CONTROL call, read no handle and written no result.
C5_NotLoadedFailsFast ==
    (last.op \in EntryPoints /\ ~isNvmlLoaded) =>
        /\ last.status = NvCtrlMissingExtension
        /\ last.calls = {}
        /\ ~last.deref /\ ~last.legacy /\ ~last.wrote
        /\ last.warned = 0 /\ ~last.logged

\* an entry point has returned NvCtrlMissingExtension on a handle that was
\* constructed before the last release unloaded the library
C5_Witness ==
    /\ last.op \in EntryPoints
    /\ ~isNvmlLoaded
    /\ ~NoAttributes(h)
    /\ last.status = NvCtrlMissingExtension

\* C6 as stated: while the library is loaded, no attribute entry point returns
\* NvCtrlMissingExtension.
C6_MissingOnlyWhenUnloaded ==
    (last.op \in EntryPoints /\ isNvmlLoaded) => last.status # NvCtrlMissingExtension

\* C6 amended: while the library is loaded, only the two valid-values queries
\* return NvCtrlMissingExtension, and only from their legacy fallback when the
\* handle they read has no NV-CONTROL backend: the NV-CONTROL function was not
\* called, and a handle with a backend never gets this status.
C6_MissingOnlyWithoutBackend ==
    (last.op \in EntryPoints /\ isNvmlLoaded /\ last.status = NvCtrlMissingExtension) =>
        /\ last.op \in ValidValuesEntryPoints
        /\ ~last.legacy
        /\ last.deref => ~h.nv

\* with the library loaded, a valid-values query on a constructed handle that
\* has no NV-CONTROL backend has returned NvCtrlMissingExtension
C6_Witness ==
    /\ last.op \in ValidValuesEntryPoints
    /\ isNvmlLoaded
    /\ last.status = NvCtrlMissingExtension
    /\ last.deref
    /\ ~NoAttributes(h)

\* the statuses of a typed result
TypedStatuses ==
    {NvCtrlSuccess, NvCtrlBadHandle, NvCtrlBadArgument, NvCtrlNotSupported,
     NvCtrlAttributeNotAvailable, NvCtrlMissingExtension}

\* C13: every call of an attribute entry point returns one of NvCtrlSuccess,
\* NvCtrlBadHandle, NvCtrlBadArgument, NvCtrlNotSupported,
\* NvCtrlAttributeNotAvailable and NvCtrlMissingExtension, and the caller's
\* output is stored to if and only if the status is NvCtrlSuccess.
C13_TypedStatusAndOutput ==
    last.op \in EntryPoints =>
        /\ last.status \in TypedStatuses
        /\ last.wrote <=> last.status = NvCtrlSuccess

\* every integer and string attribute id a case label or a caller names
AllIntAttrs ==
    UNION {GpuIntVendor, GpuIntPending, ThermalIntVendor, ThermalIntPending,
           CoolerIntVendor, CoolerIntPending, GpuSetIntPending, CoolerSetIntPending,
           IntAttrs}

AllStringAttrs == UNION {GpuStringVendor, GpuStringPending, GpuSetStringPending, StringAttrs}

\* the get/set integer and string entry points, the ids each is called with and
\* the case labels its switch has for a target type
DispatchOps ==
    {"NvCtrlNvmlGetAttribute", "NvCtrlNvmlSetAttribute",
     "NvCtrlNvmlGetStringAttribute", "NvCtrlNvmlSetStringAttribute"}

AttrsOf(op) ==
    IF op \in {"NvCtrlNvmlGetAttribute", "NvCtrlNvmlSetAttribute"}
    THEN AllIntAttrs ELSE AllStringAttrs

Declared(op, type) ==
    IF op = "NvCtrlNvmlGetAttribute"
    THEN IF type = GPU_TARGET THEN GpuIntVendor \cup GpuIntPending
         ELSE IF type = THERMAL_SENSOR_TARGET THEN ThermalIntVendor \cup ThermalIntPending
         ELSE CoolerIntVendor \cup CoolerIntPending
    ELSE IF op = "NvCtrlNvmlSetAttribute"
    THEN IF type = GPU_TARGET THEN GpuSetIntPending
         ELSE IF type = COOLER_TARGET THEN CoolerSetIntPending
         ELSE {}
    ELSE IF op = "NvCtrlNvmlGetStringAttribute"
    THEN IF type = GPU_TARGET THEN GpuStringVendor \cup GpuStringPending ELSE {}
    ELSE IF type = GPU_TARGET THEN GpuSetStringPending ELSE {}

\* the outcome of a call of op on the handle hh with the library loaded
Dispatch(op, hh, attr, devOk, propOk) ==
    IF op = "NvCtrlNvmlGetAttribute"
    THEN GetAttribute(TRUE, hh, hh.target_type, attr, TRUE, devOk, propOk)
    ELSE IF op = "NvCtrlNvmlSetAttribute"
    THEN SetAttribute(TRUE, hh, hh.target_type, attr, TRUE, devOk)
    ELSE IF op = "NvCtrlNvmlGetStringAttribute"
    THEN GetStringAttribute(TRUE, hh, hh.target_type, attr, TRUE, devOk, propOk)
    ELSE SetStringAttribute(TRUE, hh, hh.target_type, attr, TRUE, devOk)

\* a handle of a compatible type with attributes whose sensor or cooler index
\* the resolver accepts
ValidHandle(hh) ==
    /\ ~NoAttributes(hh)
    /\ TARGET_TYPE_IS_NVML_COMPATIBLE(hh.target_type)
    /\ hh.target_type = THERMAL_SENSOR_TARGET =>
           getThermalCoolerId(hh, hh.nvml.sensorCount, hh.nvml.sensorCountPerGPU) # -1
    /\ hh.target_type = COOLER_TARGET =>
           getThermalCoolerId(hh, hh.nvml.coolerCount, hh.nvml.coolerCountPerGPU) # -1

\* the result r is that of a declared id: success or not supported, no warning
AsDeclared(r) == r.status \in {NvCtrlSuccess, NvCtrlNotSupported} /\ r.warned = 0

\* the result r is that of an id outside the switch: not supported, one warning
AsUnhandled(r) == r.status = NvCtrlNotSupported /\ r.warned = 1

\* C14 as stated: with the library loaded and a valid handle, a get/set integer
\* or string call returns success or NvCtrlNotSupported without warning for an
\* id its switch names, and NvCtrlNotSupported with exactly one warning for any
\* other id, also when nvmlDeviceGetHandleByIndex fails.
C14_UnhandledAlwaysWarns ==
    (pc = "idle" /\ isNvmlLoaded /\ ValidHandle(h)) =>
        \A op \in DispatchOps, devOk \in BOOLEAN, propOk \in BOOLEAN :
            \A attr \in AttrsOf(op) :
                LET r == Dispatch(op, h, attr, devOk, propOk) IN
                IF attr \in Declared(op, h.target_type)
                THEN AsDeclared(r) ELSE AsUnhandled(r)

\* C14 amended: the same, except that a call whose nvmlDeviceGetHandleByIndex
\* fails returns NvCtrlNotSupported for every id, with the NVML error printed
\* and no unhandled-attribute warning.
C14_DispatchCompleteness ==
    (pc = "idle" /\ isNvmlLoaded /\ ValidHandle(h)) =>
        \A op \in DispatchOps, devOk \in BOOLEAN, propOk \in BOOLEAN :
            \A attr \in AttrsOf(op) :
                LET r == Dispatch(op, h, attr, devOk, propOk) IN
                IF ~devOk /\ "nvmlDeviceGetHandleByIndex" \in r.calls
                THEN r.status = NvCtrlNotSupported /\ r.warned = 0 /\ r.logged
                ELSE IF attr \in Declared(op, h.target_type)
                THEN AsDeclared(r) ELSE AsUnhandled(r)

\* on a valid sensor or cooler handle, a get-integer call with an id its
\* switch does not name has returned NvCtrlNotSupported after one warning
C14_Witness ==
    /\ isNvmlLoaded
    /\ ValidHandle(h)
    /\ h.target_type # GPU_TARGET
    /\ last.op = "NvCtrlNvmlGetAttribute"
    /\ last.status = NvCtrlNotSupported
    /\ last.warned = 1
    /\ "nvmlDeviceGetHandleByIndex" \in last.calls

C16_ConstructionFailsCleanly ==
    (last.op = "NvCtrlInitNvmlAttributes" /\ last.status \notin {"running", "nvml"}) =>
        (last.status = "NULL" /\ pc # "crashed")

\* C20: with the library loaded and a GPU, sensor or cooler target whose handle
\* or attribute table is absent, every entry point returns NvCtrlBadHandle, with
\* no warning and no access to the NV-CONTROL backend.  (With no handle at all
\* the type of the request is free: a type outside the three may abort.)
C20_AbsentHandleIsBadHandle ==
    (last.op \in EntryPoints /\ isNvmlLoaded /\ NoAttributes(h)) =>
        IF h = NULL
        THEN last.status \in {NvCtrlBadHandle, Aborted} /\ ~last.legacy
        ELSE TARGET_TYPE_IS_NVML_COMPATIBLE(h.target_type) =>
                (last.status = NvCtrlBadHandle /\ last.warned = 0 /\ ~last.legacy)

\* sum of the first n entries of a per-device array
RECURSIVE SumTo(_, _)
SumTo(perGPU, n) == IF n = 0 THEN 0 ELSE SumTo(perGPU, n - 1) + perGPU[n - 1]

\* the totals of an attribute block are the sums of its 0/1 per-device entries
CountsAgree(nvml) ==
    /\ nvml.sensorCount = SumTo(nvml.sensorCountPerGPU, nvml.deviceCount)
    /\ nvml.coolerCount = SumTo(nvml.coolerCountPerGPU, nvml.deviceCount)
    /\ \A i \in 0..(nvml.deviceCount - 1) :
          nvml.sensorCountPerGPU[i] \in {0, 1} /\ nvml.coolerCountPerGPU[i] \in {0, 1}

\* C9: before and after every iteration of the enumeration loop, and in every
\* constructed handle, sensorCount is the sum of sensorCountPerGPU, coolerCount
\* the sum of coolerCountPerGPU, and every per-device entry is 0 or 1.
C9_CountsAreSums ==
    /\ pc = "enum" => CountsAgree(cur.nvml)
    /\ ~NoAttributes(h) => CountsAgree(h.nvml)

\* a handle constructed over two devices: one with a sensor and no fan, the
\* other without a sensor (its probe or its handle lookup failed)
C9_Witness ==
    /\ ~NoAttributes(h)
    /\ h.nvml.deviceCount = 2
    /\ h.nvml.sensorCount = 1
    /\ h.nvml.coolerCount = 0
    /\ last.op = "NvCtrlInitNvmlAttributes" /\ last.status = "nvml"

\* the indices the resolver is asked for
ResolverIds == -2..(MaxDevices + 1)

\* the resolver returns -1 exactly for k outside 0..count-1, a position else
ResolvesWithin(hh, k, count, perGPU) ==
    LET id == getThermalCoolerId([hh EXCEPT !.target_id = k], count, perGPU) IN
    /\ id = -1 <=> (k < 0 \/ k >= count)
    /\ k \in 0..(count - 1) => id >= 0

\* C10: on the sensor and on the cooler counts of every constructed handle,
\* getThermalCoolerId returns -1 exactly when the index is negative or not less
\* than the total, and a non-negative position for every index below the total.
C10_SentinelIffOutOfRange ==
    ~NoAttributes(h) =>
        \A k \in ResolverIds :
            /\ ResolvesWithin(h, k, h.nvml.sensorCount, h.nvml.sensorCountPerGPU)
            /\ ResolvesWithin(h, k, h.nvml.coolerCount, h.nvml.coolerCountPerGPU)

\* a request on a sensor handle whose index is at or past the (nonzero) sensor
\* total has been turned down with NvCtrlBadHandle, before any NVML call
C10_Witness ==
    /\ ~NoAttributes(h)
    /\ h.target_type = THERMAL_SENSOR_TARGET
    /\ h.nvml.sensorCount >= 1
    /\ h.target_id >= h.nvml.sensorCount
    /\ last.op = "NvCtrlNvmlGetAttribute"
    /\ last.deref
    /\ last.status = NvCtrlBadHandle
    /\ last.calls = {}

(***************************************************************************)
(* The target resolver on its own (SpecResolver): getThermalCoolerId on    *)
(* the sensor or cooler counts of a handle over up to MaxGPUs devices.     *)
(***************************************************************************)

\* the presence arrays of n devices
PresenceArrays(n) == [0..(n - 1) -> {0, 1}]

\* a constructed handle of the given type and target id whose sensor and
\* cooler arrays are perGPU
ResolverHandle(type, id, n, perGPU) ==
    [Handle(type, id, FALSE) EXCEPT
        !.nvml = [NewNvml(n) EXCEPT
                     !.sensorCountPerGPU = perGPU, !.sensorCount = SumTo(perGPU, n),
                     !.coolerCountPerGPU = perGPU, !.coolerCount = SumTo(perGPU, n),
                     !.deviceIdx = id]]

InitResolver ==
    /\ isNvmlLoaded = TRUE
    /\ nvmlUsers = 1
    /\ run = NoRun
    /\ \E n \in 0..MaxGPUs :
          \E perGPU \in PresenceArrays(n), id \in -1..(MaxGPUs + 1),
             type \in {THERMAL_SENSOR_TARGET, COOLER_TARGET} :
             h = ResolverHandle(type, id, n, perGPU)
    /\ pc = "resolve"
    /\ cur = NULL
    /\ env = NULL
    /\ last = NoCall

\* "sensorId = getThermalCoolerId(h, h->nvml->sensorCount,
\* h->nvml->sensorCountPerGPU)" of a sensor function
ResolveSensor ==
    /\ pc = "resolve"
    /\ h.target_type = THERMAL_SENSOR_TARGET
    /\ cur' = [id |-> getThermalCoolerId(h, h.nvml.sensorCount, h.nvml.sensorCountPerGPU)]
    /\ pc' = "resolved"
    /\ UNCHANGED <<isNvmlLoaded, nvmlUsers, run, h, env, last>>

\* "coolerId = getThermalCoolerId(h, h->nvml->coolerCount,
\* h->nvml->coolerCountPerGPU)" of a cooler function
ResolveCooler ==
    /\ pc = "resolve"
    /\ h.target_type = COOLER_TARGET
    /\ cur' = [id |-> getThermalCoolerId(h, h.nvml.coolerCount, h.nvml.coolerCountPerGPU)]
    /\ pc' = "resolved"
    /\ UNCHANGED <<isNvmlLoaded, nvmlUsers, run, h, env, last>>

NextResolver == ResolveSensor \/ ResolveCooler

SpecResolver == InitResolver /\ [][NextResolver]_vars

\* the first device whose cumulative count exceeds k
OwnerOf(perGPU, n, k) ==
    CHOOSE d \in 0..(n - 1) :
        /\ SumTo(perGPU, d + 1) > k
        /\ \A e \in 0..(d - 1) : SumTo(perGPU, e + 1) <= k

\* C11: for every presence array and every in-range index k, the resolver
\* returns k minus the count accumulated before the first device whose
\* cumulative count exceeds k; for an index outside 0..count-1 it returns -1.
C11_PositionInOwner ==
    pc = "resolved" =>
        LET perGPU == h.nvml.sensorCountPerGPU
            n == h.nvml.deviceCount
            k == h.target_id
        IN  IF k \in 0..(SumTo(perGPU, n) - 1)
            THEN cur.id = k - SumTo(perGPU, OwnerOf(perGPU, n, k))
            ELSE cur.id = -1

\* presence [1,0,1], count 2: index 1 has been resolved to position 0 (of
\* device 2)
C11_Witness ==
    /\ pc = "resolved"
    /\ h.nvml.deviceCount = 3
    /\ h.nvml.sensorCountPerGPU = [i \in 0..2 |-> IF i = 1 THEN 0 ELSE 1]
    /\ h.target_id = 1
    /\ OwnerOf(h.nvml.sensorCountPerGPU, 3, 1) = 2
    /\ cur.id = 0

(***************************************************************************)
(* One handle construction against a fixed set of vendor devices           *)
(* (SpecConstruct): env holds the device count nvmlDeviceGetCount reports, *)
(* the dictionary matchNvCtrlWithNvmlIds produces and, per vendor device   *)
(* index, what its three probes answer.                                    *)
(***************************************************************************)

\* the worlds of n vendor devices seen through a handle with backend flag nv
Worlds(n, nv) ==
    {[n |-> n, ids |-> ids, caps |-> caps] :
        ids \in IF nv THEN IdsFor[n] ELSE {Identity(n)},
        caps \in [0..(n - 1) -> Probes]}

InitConstruct ==
    /\ isNvmlLoaded = TRUE
    /\ nvmlUsers = 1
    /\ run = NoRun
    /\ \E type \in {GPU_TARGET, THERMAL_SENSOR_TARGET, COOLER_TARGET},
          id \in TargetIds, nv \in BOOLEAN :
          /\ h = Handle(type, id, nv)
          /\ \E n \in 0..MaxDevices : env \in Worlds(n, nv)
    /\ pc = "construct"
    /\ cur = NULL
    /\ last = NoCall

\* the parameters pass, nvmlDeviceGetCount succeeds and the arrays are allocated
ConstructEnter ==
    /\ pc = "construct"
    /\ cur' = [nvml |-> NewNvml(env.n), ids |-> NULL, i |-> 0, probed |-> <<>>,
               asked |-> "none"]
    /\ pc' = "construct_match"
    /\ last' = ConstructCall("running", {"nvmlDeviceGetCount"}, TRUE)
    /\ UNCHANGED <<isNvmlLoaded, nvmlUsers, run, h, env>>

\* matchNvCtrlWithNvmlIds, then the first value of deviceIdx
ConstructMatch ==
    /\ pc = "construct_match"
    /\ \E idx \in DeviceIdxChoices(h, env.n, env.ids) :
          cur' = [cur EXCEPT !.ids = env.ids, !.nvml.deviceIdx = idx]
    /\ pc' = "construct_enum"
    /\ UNCHANGED <<isNvmlLoaded, nvmlUsers, run, h, env, last>>

\* one iteration of the loop: the device probed is nvctrlToNvmlId[i]
ConstructEnumerate ==
    /\ pc = "construct_enum"
    /\ cur.i < cur.nvml.deviceCount
    /\ LET devIdx == cur.ids[cur.i] IN
          cur' = [cur EXCEPT
                     !.nvml = EnumerateDevice(h, cur.nvml, cur.ids, cur.i, env.caps[devIdx]),
                     !.i = cur.i + 1,
                     !.probed = Append(cur.probed, devIdx)]
    /\ last' = [last EXCEPT !.calls = @ \cup {"nvmlDeviceGetHandleByIndex"}]
    /\ UNCHANGED <<isNvmlLoaded, nvmlUsers, run, h, pc, env>>

\* "return nvml;" and the caller stores it in h->nvml
ConstructReturn ==
    /\ pc = "construct_enum"
    /\ cur.i >= cur.nvml.deviceCount
    /\ h' = [h EXCEPT !.nvml = cur.nvml]
    /\ pc' = "constructed"
    /\ last' = [last EXCEPT !.status = "nvml"]
    /\ UNCHANGED <<isNvmlLoaded, nvmlUsers, run, cur, env>>

\* NvCtrlNvmlQueryTargetCount on the constructed handle, for each target type
ConstructQueryTargetCount ==
    /\ pc = "constructed"
    /\ \E type \in {GPU_TARGET, THERMAL_SENSOR_TARGET, COOLER_TARGET} :
          /\ last' = QueryTargetCount(isNvmlLoaded, h, type, TRUE)
          /\ cur' = [cur EXCEPT !.asked = type]
    /\ pc' = "counted"
    /\ UNCHANGED <<isNvmlLoaded, nvmlUsers, run, h, env>>

NextConstruct ==
    \/ ConstructEnter
    \/ ConstructMatch
    \/ ConstructEnumerate
    \/ ConstructReturn
    \/ ConstructQueryTargetCount

SpecConstruct == InitConstruct /\ [][NextConstruct]_vars

\* the vendor devices whose handle lookup and temperature probe succeed
SensorDevices == {d \in 0..(env.n - 1) : env.caps[d].handle /\ env.caps[d].temp}

\* the vendor devices whose handle lookup and fan-speed probe succeed
FanDevices == {d \in 0..(env.n - 1) : env.caps[d].handle /\ env.caps[d].fan}

\* C12: on a constructed handle NvCtrlNvmlQueryTargetCount returns deviceCount
\* for GPU_TARGET, the number of vendor devices whose temperature probe
\* succeeds for THERMAL_SENSOR_TARGET and the number of vendor devices whose
\* fan-speed probe succeeds for COOLER_TARGET.
C12_CountsAreVendorDevices ==
    pc = "counted" =>
        /\ last.status = NvCtrlSuccess
        /\ cur.asked = GPU_TARGET => last.value = env.n
        /\ cur.asked = THERMAL_SENSOR_TARGET => last.value = Cardinality(SensorDevices)
        /\ cur.asked = COOLER_TARGET => last.value = Cardinality(FanDevices)

\* how many iterations of the enumeration loop probed vendor device d
TimesProbed(d) == Cardinality({j \in 1..Len(cur.probed) : cur.probed[j] = d})

\* C17: when the enumeration loop of a construction has ended, every vendor
\* device index in 0..deviceCount-1 has been probed exactly once, whatever
\* dictionary matchNvCtrlWithNvmlIds produced.
C17_EachDeviceProbedOnce ==
    pc = "constructed" => \A d \in 0..(env.n - 1) : TimesProbed(d) = 1

\* C18: a constructed GPU handle with target id t in 0..deviceCount-1 has
\* deviceIdx = nvctrlToNvmlId[t], whatever the temperature and fan probes
\* of the enumeration answered.
C18_GpuDeviceIdxFromDictionary ==
    (pc \in {"constructed", "counted"} /\ h.target_type = GPU_TARGET
        /\ h.target_id \in 0..(h.nvml.deviceCount - 1)) =>
        h.nvml.deviceIdx = env.ids[h.target_id]

\* a GPU handle whose dictionary entry differs from its id, built while a
\* temperature probe succeeded on another device in the slot of that id
C18_Witness ==
    /\ pc = "constructed" /\ h.target_type = GPU_TARGET
    /\ h.target_id = 0 /\ env.n = 2 /\ env.ids[0] = 1 /\ env.ids[1] = 0
    /\ ~env.caps[1].temp /\ env.caps[0].temp /\ env.caps[0].fan
    /\ h.nvml.deviceIdx = 1

\* the j-th iteration of the loop found a sensor (a fan) on the device it probed
SensorAt(j) == env.caps[cur.probed[j]].handle /\ env.caps[cur.probed[j]].temp
FanAt(j) == env.caps[cur.probed[j]].handle /\ env.caps[cur.probed[j]].fan

\* the iterations that gave out global sensor (cooler) slot k
SensorSlot(k) ==
    {j \in 1..Len(cur.probed) :
        SensorAt(j) /\ Cardinality({m \in 1..(j - 1) : SensorAt(m)}) = k}
FanSlot(k) ==
    {j \in 1..Len(cur.probed) :
        FanAt(j) /\ Cardinality({m \in 1..(j - 1) : FanAt(m)}) = k}

\* C19 as stated: a constructed sensor (cooler) handle with target id k has
\* as deviceIdx the vendor index of the device given the k-th global sensor
\* (cooler) slot, and the fallback to the raw target id is never what stays.
C19_FallbackNeverFinal ==
    pc = "constructed" =>
        /\ h.target_type = THERMAL_SENSOR_TARGET =>
              \E j \in SensorSlot(h.target_id) : h.nvml.deviceIdx = cur.probed[j]
        /\ h.target_type = COOLER_TARGET =>
              \E j \in FanSlot(h.target_id) : h.nvml.deviceIdx = cur.probed[j]

\* deviceIdx of a handle whose id is k, given the slot-k iterations and the
\* count of slots given out
SlotOrFallback(slots, count, perGPU) ==
    IF h.target_id \in 0..(count - 1)
    THEN \E j \in slots : h.nvml.deviceIdx = cur.probed[j]
    ELSE /\ slots = {}
         /\ h.nvml.deviceIdx = h.target_id
         /\ getThermalCoolerId(h, count, perGPU) = -1

\* C19 amended: a constructed sensor (cooler) handle with target id k in
\* 0..sensorCount-1 (0..coolerCount-1) has as deviceIdx the vendor index of the
\* device given the k-th global slot; with k outside that range no slot
\* matches, deviceIdx keeps the raw target id and getThermalCoolerId rejects
\* the handle.
C19_SlotOrFallback ==
    pc = "constructed" =>
        /\ h.target_type = THERMAL_SENSOR_TARGET =>
              SlotOrFallback(SensorSlot(h.target_id), h.nvml.sensorCount,
                             h.nvml.sensorCountPerGPU)
        /\ h.target_type = COOLER_TARGET =>
              SlotOrFallback(FanSlot(h.target_id), h.nvml.coolerCount,
                             h.nvml.coolerCountPerGPU)

\* a sensor handle for slot 1 whose device is vendor index 0
C19_Witness ==
    /\ pc = "constructed" /\ h.target_type = THERMAL_SENSOR_TARGET
    /\ h.target_id = 1 /\ env.n = 2 /\ env.ids[0] = 1 /\ env.ids[1] = 0
    /\ h.nvml.sensorCount = 2 /\ h.nvml.deviceIdx = 0

(***************************************************************************)
(* Further claims on the program (Spec).                                   *)
(***************************************************************************)

\* the attribute calls: every entry point but the target count
AttributeCalls == EntryPoints \ {"NvCtrlNvmlQueryTargetCount"}

\* a constructed sensor (cooler) handle whose id is negative or not below
\* sensorCount (coolerCount)
OutOfRange(hh) ==
    IF NoAttributes(hh) THEN FALSE
    ELSE IF hh.target_type = THERMAL_SENSOR_TARGET
    THEN hh.target_id \notin 0..(hh.nvml.sensorCount - 1)
    ELSE IF hh.target_type = COOLER_TARGET
    THEN hh.target_id \notin 0..(hh.nvml.coolerCount - 1)
    ELSE FALSE

\* C21 as stated: with the library loaded, every attribute call on a sensor
\* or cooler handle whose id is out of range returns NvCtrlBadHandle.
C21_OutOfRangeIsBadHandle ==
    (last.op \in AttributeCalls /\ isNvmlLoaded /\ OutOfRange(h)) =>
        last.status = NvCtrlBadHandle

\* the entry points whose function for this target type calls getThermalCoolerId
ResolverOps(type) ==
    {"NvCtrlNvmlGetAttribute", "NvCtrlNvmlGetValidAttributeValues"} \cup
    (IF type = COOLER_TARGET THEN {"NvCtrlNvmlSetAttribute"} ELSE {})

\* C21 amended: with the library loaded and an out-of-range sensor or cooler
\* handle, the integer get, the integer valid-values query and the integer
\* set of a cooler return NvCtrlBadHandle before any NVML call or warning;
\* the string valid-values query never returns NvCtrlBadHandle (it goes to
\* the NV-CONTROL fallback); every other attribute call warns once and
\* returns NvCtrlNotSupported.
C21_ResolverOpsAreBadHandle ==
    (last.op \in AttributeCalls /\ isNvmlLoaded /\ OutOfRange(h)) =>
        IF last.op \in ResolverOps(h.target_type)
        THEN last.status = NvCtrlBadHandle /\ last.calls = {}
             /\ last.warned = 0 /\ ~last.logged /\ ~last.legacy
        ELSE IF last.op = "NvCtrlNvmlGetValidStringAttributeValues"
        THEN last.status \in {NvCtrlMissingExtension, Aborted} \cup LegacyStatuses
        ELSE last.status = NvCtrlNotSupported /\ last.warned = 1 /\ last.calls = {}

\* an integer get on a cooler handle whose id is the cooler count, one cooler found
C21_Witness ==
    /\ pc = "returned" /\ isNvmlLoaded /\ OutOfRange(h)
    /\ h.target_type = COOLER_TARGET /\ h.nvml.coolerCount = 1 /\ h.target_id = 1
    /\ last.op = "NvCtrlNvmlGetAttribute" /\ last.status = NvCtrlBadHandle

\* the ids for which a get call on a target of this type makes an NVML
\* property call
VendorAttrs(op, type) ==
    IF op = "NvCtrlNvmlGetAttribute"
    THEN IF type = GPU_TARGET THEN GpuIntVendor
         ELSE IF type = THERMAL_SENSOR_TARGET THEN ThermalIntVendor
         ELSE CoolerIntVendor
    ELSE IF type = GPU_TARGET THEN GpuStringVendor ELSE {}

\* the get call of op on a target of this type looks up the NVML device
LooksUpDevice(op, type) == op = "NvCtrlNvmlGetAttribute" \/ type = GPU_TARGET

\* C22: in a get integer or get string call whose nvmlDeviceGetHandleByIndex
\* fails, or whose NVML property call for a supported id fails, the NVML error
\* is printed and the call returns NvCtrlNotSupported; the integer output is
\* not written.
C22_VendorFailureIsNotSupported ==
    (pc = "idle" /\ isNvmlLoaded /\ ValidHandle(h)) =>
        \A op \in {"NvCtrlNvmlGetAttribute", "NvCtrlNvmlGetStringAttribute"} :
            \A attr \in AttrsOf(op), devOk \in BOOLEAN :
                LET r == Dispatch(op, h, attr, devOk, ~devOk) IN
                (LooksUpDevice(op, h.target_type)
                    /\ (~devOk \/ attr \in VendorAttrs(op, h.target_type))) =>
                    /\ r.status = NvCtrlNotSupported
                    /\ r.logged
                    /\ op = "NvCtrlNvmlGetAttribute" => (~r.wrote /\ r.value = Unwritten)

\* a get-integer call on a GPU whose NVML property call failed
C22_Witness ==
    /\ isNvmlLoaded /\ ValidHandle(h) /\ h.target_type = GPU_TARGET
    /\ last.op = "NvCtrlNvmlGetAttribute"
    /\ last.calls = {"nvmlDeviceGetHandleByIndex", "nvmlDeviceGetMemoryInfo"}
    /\ last.status = NvCtrlNotSupported /\ last.logged /\ ~last.wrote

\* C23 as stated: no entry point but the string valid-values query calls an
\* NV-CONTROL function; the integer valid-values query returns
\* NvCtrlAttributeNotAvailable from its switch without calling one.
C23_LegacyOnlyInValidString ==
    last.legacy => last.op = "NvCtrlNvmlGetValidStringAttributeValues"

\* C23 amended: only the two valid-values queries call an NV-CONTROL
\* function, with the library loaded, and never on a handle whose "nv" is
\* not set; every other entry point returns without calling one.
C23_LegacyOnlyInValidValues ==
    last.legacy =>
        /\ last.op \in ValidValuesEntryPoints
        /\ isNvmlLoaded
        /\ h # NULL => h.nv

\* the integer valid-values query on a constructed GPU handle has called the
\* NV-CONTROL function and returned what it answered
C23_Witness ==
    /\ pc = "returned" /\ ValidHandle(h) /\ h.target_type = GPU_TARGET
    /\ last.op = "NvCtrlNvmlGetValidAttributeValues"
    /\ last.legacy /\ last.status = NvCtrlAttributeNotAvailable

\* the target types outside GPU, thermal sensor and cooler
OtherTypes == {t \in TargetTypes : ~TARGET_TYPE_IS_NVML_COMPATIBLE(t)}

\* what the seven attribute entry points return for a request of this type
\* on hh, with the library loaded, in a build without assert()
AttributeResults(hh, type) ==
    UNION {
        {GetStringAttribute(TRUE, hh, type, a, TRUE, TRUE, TRUE) : a \in StringAttrs},
        {SetStringAttribute(TRUE, hh, type, a, TRUE, TRUE) : a \in StringAttrs},
        {GetAttribute(TRUE, hh, type, a, TRUE, TRUE, TRUE) : a \in IntAttrs},
        {SetAttribute(TRUE, hh, type, a, TRUE, TRUE) : a \in IntAttrs},
        {GetBinaryAttribute(TRUE, hh, type, a, TRUE, TRUE) : a \in BinaryAttrs},
        {GetValidStringAttributeValues(TRUE, hh, type, a, TRUE, n, NvCtrlAttributeNotAvailable) :
            a \in StringAttrs, n \in {"zero", "nonzero"}},
        {GetValidAttributeValues(TRUE, hh, type, a, TRUE, TRUE, n, NvCtrlAttributeNotAvailable) :
            a \in IntAttrs, n \in {"zero", "nonzero"}}}

\* C24 as stated: with the library loaded, in a build without assert(), every
\* entry point returns NvCtrlBadArgument for a target type outside GPU,
\* thermal sensor and cooler.
C24_OtherTypeIsBadArgument ==
    (pc = "idle" /\ isNvmlLoaded) =>
        \A type \in OtherTypes :
            /\ QueryTargetCount(TRUE, h, type, TRUE).status = NvCtrlBadArgument
            /\ type \in TypesOf(h) =>
                  \A r \in AttributeResults(h, type) : r.status = NvCtrlBadArgument

\* C24 amended: for such a target type NvCtrlNvmlQueryTargetCount returns
\* NvCtrlBadArgument when the handle has attributes and NvCtrlBadHandle when
\* it has none, and every other entry point returns NvCtrlBadHandle, without
\* an NVML call, a warning or an NV-CONTROL call.
C24_OtherTypeIsBadHandle ==
    (pc = "idle" /\ isNvmlLoaded) =>
        \A type \in OtherTypes :
            /\ QueryTargetCount(TRUE, h, type, TRUE).status =
                  IF NoAttributes(h) THEN NvCtrlBadHandle ELSE NvCtrlBadArgument
            /\ type \in TypesOf(h) =>
                  \A r \in AttributeResults(h, type) :
                      /\ r.status = NvCtrlBadHandle
                      /\ r.calls = {} /\ r.warned = 0 /\ ~r.legacy

\* with the library loaded, an integer get on an X screen target has returned
\* NvCtrlBadHandle
C24_Witness ==
    /\ pc = "returned" /\ isNvmlLoaded
    /\ h # NULL /\ h.target_type = X_SCREEN_TARGET
    /\ last.op = "NvCtrlNvmlGetAttribute" /\ last.status = NvCtrlBadHandle

(***************************************************************************)
(* Two target handles in one process (SpecHandles): constructions, closes  *)
(* and attribute calls on them interleave; a construction runs to its end  *)
(* in one step.  h maps each handle name to its handle, env is the vendor  *)
(* world, cur names the handle the last call was made on.  The handles     *)
(* have no NV-CONTROL backend, so the dictionary is the identity.          *)
(***************************************************************************)

\* one handle and some other handle of the process
HandleNames == {"one", "other"}

\* the loop "for (i = 0; i < count; i++)" from iteration i to its end
RECURSIVE EnumerateFrom(_, _, _, _, _)
EnumerateFrom(hh, nvml, ids, i, caps) ==
    IF i >= nvml.deviceCount THEN nvml
    ELSE EnumerateFrom(hh, EnumerateDevice(hh, nvml, ids, i, caps[ids[i]]),
                       ids, i + 1, caps)

\* the tables NvCtrlInitNvmlAttributes(hh) can return in the world w
ConstructedTables(hh, w) ==
    LET ids == IF hh.nv THEN w.ids ELSE Identity(w.n) IN
    {EnumerateFrom(hh, [NewNvml(w.n) EXCEPT !.deviceIdx = idx], ids, 0, w.caps) :
        idx \in DeviceIdxChoices(hh, w.n, ids)}

\* mutant: the table is kept in one place that all handles share
StoreTable_Shared(hs, k, t) == [j \in DOMAIN hs |-> [hs[j] EXCEPT !.nvml = t]]

\* "h->nvml = ..." on the handle named k
StoreTable(hs, k, t) == [hs EXCEPT ![k].nvml = t]

\* the handle a call was made on, and the target type it asked about
OnHandle(k, type) == [target |-> k, asked |-> type]

\* every device of the world w answers nvmlDeviceGetHandleByIndex (a device
\* that does not leaves the same table as one without sensor and fan)
Answering(w) == \A d \in 0..(w.n - 1) : w.caps[d].handle

InitHandles ==
    /\ isNvmlLoaded = TRUE
    /\ nvmlUsers = 1
    /\ run = NoRun
    /\ h \in [HandleNames ->
                {Handle(type, id, FALSE) :
                    type \in {GPU_TARGET, THERMAL_SENSOR_TARGET, COOLER_TARGET},
                    id \in TargetIds}]
    /\ \E n \in 0..MaxDevices : env \in {w \in Worlds(n, FALSE) : Answering(w)}
    /\ pc = "idle"
    /\ cur = OnHandle("none", "none")
    /\ last = NoCall

\* NvCtrlInitNvmlAttributes on a handle without attributes; the caller stores
\* the table returned
HandlesConstruct ==
    /\ pc = "idle"
    /\ \E k \in HandleNames :
          /\ h[k].nvml = NULL
          /\ \E t \in ConstructedTables(h[k], env) : h' = StoreTable(h, k, t)
          /\ cur' = OnHandle(k, "none")
    /\ last' = ConstructCall("nvml", {"nvmlDeviceGetCount"}, TRUE)
    /\ pc' = "returned"
    /\ UNCHANGED <<isNvmlLoaded, nvmlUsers, run, env>>

\* NvCtrlNvmlAttributesClose on a handle
HandlesClose ==
    /\ pc = "idle"
    /\ \E k \in HandleNames :
          /\ h' = StoreTable(h, k, NULL)
          /\ cur' = OnHandle(k, "none")
    /\ last' = [Call("NvCtrlNvmlAttributesClose", "void", {}) EXCEPT !.deref = TRUE]
    /\ pc' = "returned"
    /\ UNCHANGED <<isNvmlLoaded, nvmlUsers, run, env>>

\* NvCtrlNvmlQueryTargetCount on a handle
HandlesQueryTargetCount ==
    /\ pc = "idle"
    /\ \E k \in HandleNames,
          type \in {GPU_TARGET, THERMAL_SENSOR_TARGET, COOLER_TARGET} :
          /\ last' = QueryTargetCount(isNvmlLoaded, h[k], type, TRUE)
          /\ cur' = OnHandle(k, type)
    /\ pc' = "returned"
    /\ UNCHANGED <<isNvmlLoaded, nvmlUsers, run, h, env>>

\* NvCtrlNvmlGetAttribute on a handle
HandlesGetAttribute ==
    /\ pc = "idle"
    /\ \E k \in HandleNames, attr \in IntAttrs :
          \E v \in VendorOutcomes(h[k]) :
             /\ last' = GetAttribute(isNvmlLoaded, h[k], h[k].target_type, attr, TRUE,
                                     v.devOk, v.propOk)
             /\ cur' = OnHandle(k, h[k].target_type)
    /\ pc' = "returned"
    /\ UNCHANGED <<isNvmlLoaded, nvmlUsers, run, h, env>>

\* the caller goes on after a call
HandlesResume ==
    /\ pc = "returned"
    /\ pc' = "idle"
    /\ cur' = OnHandle("none", "none")
    /\ last' = NoCall
    /\ UNCHANGED <<isNvmlLoaded, nvmlUsers, run, h, env>>

NextHandles ==
    \/ HandlesConstruct
    \/ HandlesClose
    \/ HandlesQueryTargetCount
    \/ HandlesGetAttribute
    \/ HandlesResume

SpecHandles == InitHandles /\ [][NextHandles]_vars

\* the count of the handle hh for a target type
CountOf(hh, type) ==
    IF type = GPU_TARGET THEN hh.nvml.deviceCount
    ELSE IF type = THERMAL_SENSOR_TARGET THEN hh.nvml.sensorCount
    ELSE hh.nvml.coolerCount

C26_NoDecrementAtZero ==
    [][nvmlUsers' # nvmlUsers => (nvmlUsers' = UIntInc(nvmlUsers) \/ nvmlUsers > 0)]_vars

\* the indices at which the construction in progress has read nvctrlToNvmlId:
\* "nvctrlToNvmlId[h->target_id]" of a GPU handle, then "nvctrlToNvmlId[i]"
\* of each iteration made
DictionaryReads ==
    (IF h.target_type = GPU_TARGET THEN {h.target_id} ELSE {}) \cup 0..(cur.i - 1)

\* C27: a construction reads nvctrlToNvmlId only at indices in
\* 0..deviceCount-1, whatever the target type, the target id and the device
\* count.
C27_ReadsWithinDictionary ==
    pc \in {"construct_enum", "constructed", "counted"} =>
        DictionaryReads \subseteq 0..(env.n - 1)

====
